---- MODULE Spec2Model ----
(***************************************************************************)
(* BRRR: a two-pass k-mer based read corrector.                            *)
(*                                                                         *)
(* The module models, component by component,                              *)
(*   - the mutation iterators            (src/src/mutation.rs)             *)
(*   - the minimizer queue               (src/src/minimizer.rs)            *)
(*   - the sharded counting Bloom filter (src/src/dashbloom.rs)            *)
(*   - the correction state machine      (src/src/correction.rs)           *)
(*   - the indexing pass and the driver  (src/src/main.rs)                 *)
(*   - the read pipeline adapter         (src/src/reads.rs)                *)
(* Each component has its own specification (SpecMut, SpecQueue, ...)      *)
(* over its own variables; the variables of the other components stay at   *)
(* their idle values.                                                      *)
(***************************************************************************)
EXTENDS Integers, Sequences, FiniteSets, TLC

VARIABLES
    \* ---- mutation iterators (mutation.rs) ----
    src,        \* the items of the wrapped source iterator
    mut,        \* the adapter: [kind, iter, count, element]
    out,        \* the items the adapter has yielded so far
    ended,      \* TRUE once next() has returned None
    mutArgs,    \* the (index, element) the adapter was built with
    \* ---- minimizer queue (minimizer.rs) ----
    queue,      \* MinimizerQueue: [deq, width, time]
    stream,     \* history: the m-mers inserted so far, oldest first
    \* ---- sharded counting Bloom filter (dashbloom.rs) ----
    filter,     \* CountingBloomFilter: [shard_shift, shard_size, n_hashes, seed]
    shards,     \* the cells: shards[i][p] is cell p of shard i
    locks,      \* the latch of each shard: [writer, readers]
    th,         \* each worker's position inside count / add / add_and_count
    calls,      \* number of calls started
    completed,  \* history: completed add / add_and_count calls per key
    addressed,  \* history: increments addressed to each cell by started calls
    \* ---- bit Bloom filter and cascade of them (dashbloom.rs) ----
    bfs,        \* CascadingBloomFilter.bfs: the fields of each BloomFilter
    bits,       \* bits[l][i][p]: bit p of shard i of sketch l
    bf_locks,   \* the latch of each shard of each sketch
    bth,        \* each worker's position inside its call
    bf_calls,   \* number of calls started
    inserted,   \* history: per key, the insert calls started and completed
    \* ---- correction of one read (correction.rs) ----
    K,          \* the k-mer length (a build-time constant)
    nucs,       \* the read: a sequence of characters
    solid,      \* the oracle: the set of k-mers it reports solid
    cor,        \* the locals of correct: [pos, i, kmer, last_solid_kmer,
                \*   weak_bases, error_size, buffer, stats, pc]
    lastRun,    \* history: the last weak run closed by a solid k-mer
    \* ---- the driver: indexing pass and correction pass (main.rs) ----
    M,          \* the m-mer length (a build-time constant)
    thr,        \* [abundance, min_threshold, kmer_threshold]
    input,      \* the reads of the input file, in file order
    nextRead,   \* index of the next read to hand to a worker
    min_counts, \* the minimizer counter: [f, sh]
    kmer_counts,\* the k-mer counter: [f, sh]
    idxw,       \* each indexing worker's locals: [pc, nucs, pos, i, kmer,
                \*   mmer, queue, prev_min, min_is_solid]
    phase,      \* "index", "correct" or "done"
    global_stats, \* the sum of the per-read statistics
    output,     \* the buffers handed to the sink, in order
    \* ---- the read pipeline adapter (reads.rs) and the sink (main.rs) ----
    records,    \* the records of the input file: [head, seq], in file order
    fresh,      \* for each record, what the worker closure computes from it
                \* on a scratch object fresh from R::default()
    validation, \* args.validation
    reader,     \* number of records the reader has handed out
    slots,      \* the scratch objects in flight: [pc, rec, result]
    wk,         \* each worker: [pc, slot]
    finished,   \* history: the records in the order their workers finished
    sunk,       \* history: the records the sink was called for, in call order
    writer,     \* the characters written to the output file
    sink_stats  \* global_stats of the correction pass

mutVars == <<src, mut, out, ended, mutArgs>>
queueVars == <<queue, stream>>
bloomVars == <<filter, shards, locks, th, calls, completed, addressed>>
bitVars == <<bfs, bits, bf_locks, bth, bf_calls, inserted>>
corVars == <<K, nucs, solid, cor, lastRun>>
pipeVars == <<M, thr, input, nextRead, min_counts, kmer_counts, idxw, phase,
              global_stats, output>>
adapterVars == <<records, fresh, validation, reader, slots, wk, finished, sunk, writer,
                 sink_stats>>

vars == <<src, mut, out, ended, mutArgs, queue, stream,
          filter, shards, locks, th, calls, completed, addressed,
          bfs, bits, bf_locks, bth, bf_calls, inserted,
          K, nucs, solid, cor, lastRun,
          M, thr, input, nextRead, min_counts, kmer_counts, idxw, phase,
          global_stats, output,
          records, fresh, validation, reader, slots, wk, finished, sunk, writer,
          sink_stats>>

(***************************************************************************)
(* The idle value of each component's variables, and, for each component,  *)
(* the variables of all the others.                                        *)
(***************************************************************************)
MutIdle ==
    /\ src = <<>>
    /\ mut = [kind |-> "none", iter |-> 0, count |-> 0, element |-> 0]
    /\ out = <<>>
    /\ ended = FALSE
    /\ mutArgs = [index |-> 0, element |-> 0]

QueueIdle ==
    /\ queue = [deq |-> <<>>, width |-> 1, time |-> 0]
    /\ stream = <<>>

BloomIdle ==
    /\ filter = [shard_shift |-> 0, shard_size |-> 0, n_hashes |-> 0, seed |-> 0]
    /\ shards = <<>>
    /\ locks = <<>>
    /\ th = <<>>
    /\ calls = 0
    /\ completed = <<>>
    /\ addressed = <<>>

BitIdle ==
    /\ bfs = <<>>
    /\ bits = <<>>
    /\ bf_locks = <<>>
    /\ bth = <<>>
    /\ bf_calls = 0
    /\ inserted = <<>>

\* no call of correct is in progress
CorNone == [pc |-> "none"]

CorIdle ==
    /\ K = 0
    /\ nucs = <<>>
    /\ solid = {}
    /\ cor = CorNone
    /\ lastRun = <<>>

PipeIdle ==
    /\ M = 0
    /\ thr = <<>>
    /\ input = <<>>
    /\ nextRead = 0
    /\ min_counts = <<>>
    /\ kmer_counts = <<>>
    /\ idxw = <<>>
    /\ phase = "none"
    /\ global_stats = <<>>
    /\ output = <<>>

AdapterIdle ==
    /\ records = <<>>
    /\ fresh = <<>>
    /\ validation = 0
    /\ reader = 0
    /\ slots = <<>>
    /\ wk = <<>>
    /\ finished = <<>>
    /\ sunk = <<>>
    /\ writer = <<>>
    /\ sink_stats = <<>>

OthersOfMut == <<queueVars, bloomVars, bitVars, corVars, pipeVars, adapterVars>>
OthersOfQueue == <<mutVars, bloomVars, bitVars, corVars, pipeVars, adapterVars>>
OthersOfBloom == <<mutVars, queueVars, bitVars, corVars, pipeVars, adapterVars>>
OthersOfBit == <<mutVars, queueVars, bloomVars, corVars, pipeVars, adapterVars>>
OthersOfCor == <<mutVars, queueVars, bloomVars, bitVars, pipeVars, adapterVars>>
OthersOfPipe == <<mutVars, queueVars, bloomVars, bitVars, adapterVars>>
\* the adapter's callbacks use K and the oracle
OthersOfAdapter == <<mutVars, queueVars, bloomVars, bitVars, pipeVars, nucs, cor, lastRun>>

IdleButMut == QueueIdle /\ BloomIdle /\ BitIdle /\ CorIdle /\ PipeIdle /\ AdapterIdle
IdleButQueue == MutIdle /\ BloomIdle /\ BitIdle /\ CorIdle /\ PipeIdle /\ AdapterIdle
IdleButBloom == MutIdle /\ QueueIdle /\ BitIdle /\ CorIdle /\ PipeIdle /\ AdapterIdle
IdleButBit == MutIdle /\ QueueIdle /\ BloomIdle /\ CorIdle /\ PipeIdle /\ AdapterIdle
IdleButCor == MutIdle /\ QueueIdle /\ BloomIdle /\ BitIdle /\ PipeIdle /\ AdapterIdle
IdleButPipe == MutIdle /\ QueueIdle /\ BloomIdle /\ BitIdle /\ AdapterIdle
IdleButAdapter ==
    /\ MutIdle /\ QueueIdle /\ BloomIdle /\ BitIdle /\ PipeIdle
    /\ nucs = <<>> /\ cor = CorNone /\ lastRun = <<>>

(***************************************************************************)
(* Option values: None is the empty sequence, Some(x) the sequence <<x>>.  *)
(***************************************************************************)
None == <<>>
Some(x) == <<x>>

Min2(a, b) == IF a <= b THEN a ELSE b
Max2(a, b) == IF a >= b THEN a ELSE b

\* s[lo+1 .. hi] in 1-based TLA+, i.e. the Rust slice s[lo..hi]
Slice(s, lo, hi) == IF hi <= lo THEN <<>> ELSE SubSeq(s, lo + 1, hi)

(***************************************************************************)
(*                      MUTATION ITERATORS                                 *)
(***************************************************************************)
MaxSrcLen == 3   \* longest source sequence
MaxItem == 1     \* items are 0..MaxItem
MaxOut == 6      \* the consumer stops calling next() after MaxOut items

MutItems == 0..MaxItem
MutSources == UNION {[1..n -> MutItems] : n \in 0..MaxSrcLen}

\* isize::saturating_sub(1) on a count that starts >= 0 (index as isize)
SaturatingSub1(c) == c - 1

\* self.iter.next() on the wrapped (slice) iterator: iter is the number of
\* items consumed so far
IterNext(s, it) ==
    IF it < Len(s) THEN [iter |-> it + 1, item |-> Some(s[it + 1])]
                   ELSE [iter |-> it, item |-> None]

\* Mutation::insertion / deletion / substitution: the adapter's constructor
Insertion(index, element) ==
    [kind |-> "insertion", iter |-> 0, count |-> index, element |-> element]
Deletion(index) ==
    [kind |-> "deletion", iter |-> 0, count |-> index, element |-> 0]
Substitution(index, element) ==
    [kind |-> "substitution", iter |-> 0, count |-> index, element |-> element]

\* InsertionIterator::next
InsertionNext(s, m) ==
    IF m.count # 0
    THEN LET r == IterNext(s, m.iter)
         IN  [m |-> [m EXCEPT !.count = SaturatingSub1(m.count), !.iter = r.iter],
              item |-> r.item]
    ELSE [m |-> m, item |-> Some(m.element)]

\* DeletionIterator::next
DeletionNext(s, m) ==
    IF m.count # 0
    THEN LET r == IterNext(s, m.iter)
         IN  [m |-> [m EXCEPT !.count = SaturatingSub1(m.count), !.iter = r.iter],
              item |-> r.item]
    ELSE LET r1 == IterNext(s, m.iter)
             r2 == IterNext(s, r1.iter)
         IN  [m |-> [m EXCEPT !.iter = r2.iter], item |-> r2.item]

\* SubstitutionIterator::next
SubstitutionNext(s, m) ==
    IF m.count # 0
    THEN LET r == IterNext(s, m.iter)
         IN  [m |-> [m EXCEPT !.count = SaturatingSub1(m.count), !.iter = r.iter],
              item |-> r.item]
    ELSE LET r1 == IterNext(s, m.iter)
         IN  [m |-> [m EXCEPT !.iter = r1.iter], item |-> Some(m.element)]

InitMut ==
    /\ IdleButMut
    /\ src \in MutSources
    /\ \E index \in 0..MaxSrcLen, element \in MutItems :
          /\ mutArgs = [index |-> index, element |-> element]
          /\ mut \in {Insertion(index, element), Deletion(index),
                      Substitution(index, element)}
    /\ out = <<>>
    /\ ended = FALSE

\* the consumer (a for loop, Iterator::all, collect) calls next() until it
\* returns None
Consume(r) ==
    /\ mut' = r.m
    /\ IF r.item = None
       THEN ended' = TRUE /\ out' = out
       ELSE ended' = FALSE /\ out' = out \o r.item
    /\ UNCHANGED <<src, mutArgs>>
    /\ UNCHANGED OthersOfMut

CallInsertionNext ==
    /\ mut.kind = "insertion" /\ ~ended /\ Len(out) < MaxOut
    /\ Consume(InsertionNext(src, mut))

CallDeletionNext ==
    /\ mut.kind = "deletion" /\ ~ended /\ Len(out) < MaxOut
    /\ Consume(DeletionNext(src, mut))

CallSubstitutionNext ==
    /\ mut.kind = "substitution" /\ ~ended /\ Len(out) < MaxOut
    /\ Consume(SubstitutionNext(src, mut))

NextMut == CallInsertionNext \/ CallDeletionNext \/ CallSubstitutionNext

SpecMut == InitMut /\ [][NextMut]_vars

IsPrefix(p, s) == Len(p) <= Len(s) /\ SubSeq(s, 1, Len(p)) = p

\* s[0..i], then b, then s[i..]
InsertedAt(s, i, b) == Slice(s, 0, i) \o <<b>> \o Slice(s, i, Len(s))

\* C10: for every finite source s, index i <= len(s) and element b,
\* s.insertion(i, b) yields s[0..i], then b exactly once, then s[i..], and
\* then ends; the result has length len(s) + 1.  At every moment the items
\* yielded so far are a prefix of that sequence, and when next() has returned
\* None they are the whole of it.
C10_InsertionYieldsSourcePlusOne ==
    (mut.kind = "insertion" /\ mutArgs.index <= Len(src)) =>
        LET want == InsertedAt(src, mutArgs.index, mutArgs.element)
        IN  /\ IsPrefix(out, want)
            /\ (ended => out = want)

\* s[0..i] followed by s[i+1..]
DeletedAt(s, i) == Slice(s, 0, i) \o Slice(s, i + 1, Len(s))

\* C11: for every finite source s and index i < len(s), s.deletion(i) yields
\* s[0..i] followed by all of s[i+1..] in order: exactly item i is skipped and
\* the result has length len(s) - 1.  The items yielded so far are a prefix of
\* that sequence, and when next() has returned None they are the whole of it.
C11_DeletionSkipsExactlyOne ==
    (mut.kind = "deletion" /\ mutArgs.index < Len(src)) =>
        LET want == DeletedAt(src, mutArgs.index)
        IN  /\ IsPrefix(out, want)
            /\ (ended => (out = want /\ Len(out) = Len(src) - 1))

\* s[0..i], then b, then s[i+1..]
SubstitutedWith(s, i, b) == Slice(s, 0, i) \o <<b>> \o Slice(s, i + 1, Len(s))

\* C12: for every finite source s, index i < len(s) and element b,
\* s.substitution(i, b) yields s[0..i], then b in place of s[i], then s[i+1..]
\* unchanged, and then ends: the items yielded so far are a prefix of that
\* sequence (so never more than len(s) of them), and when next() has returned
\* None they are the whole of it.
C12_SubstitutionReplacesOne ==
    (mut.kind = "substitution" /\ mutArgs.index < Len(src)) =>
        LET want == SubstitutedWith(src, mutArgs.index, mutArgs.element)
        IN  /\ IsPrefix(out, want)
            /\ (ended => out = want)

(***************************************************************************)
(*                        MINIMIZER QUEUE                                  *)
(***************************************************************************)
MaxInserts == 6     \* m-mers inserted into one queue

\* the packed m-mers fed to the queue (to_int() of an M = 3 m-mer is 0..63);
\* their hash order is 0 < 22 < 1, their integer order 0 < 1 < 22
QueueMmers == {0, 1, 22}
\* (K, M) pairs: the window widths K - M + 1 are 1, 3 and 5
QueueKM == {<<3, 3>>, <<5, 3>>, <<7, 3>>}

\* FxHasher: one word v hashes to v * 0x517cc1b727220a95 mod 2^64.  The
\* product is computed on the four 16-bit limbs of the multiplier; the value
\* returned is the top 30 bits of the 64-bit hash, which are pairwise
\* distinct for every word below 4^5, so the order of the hashes is kept.
FxSeedLimbs == <<2709, 10018, 49591, 20860>>
Hash(v) ==
    LET p0 == v * FxSeedLimbs[1]
        p1 == v * FxSeedLimbs[2] + (p0 \div 65536)
        p2 == v * FxSeedLimbs[3] + (p1 \div 65536)
        p3 == v * FxSeedLimbs[4] + (p2 \div 65536)
    IN  (p3 % 65536) * 16384 + ((p2 % 65536) \div 4)

\* MinimizerQueue::new(k): width = (k - M + 1) as u8
QueueNew(k, m) == [deq |-> <<>>, width |-> (k - m + 1) % 256, time |-> 0]

\* MinimizerQueue::get_min: panics (-1) on an empty queue
GetMin(q) == IF Len(q.deq) = 0 THEN -1 ELSE q.deq[1].mmer

\* an insert that never pops the back
ScanBackNever(deq, u, i) == i

\* the while loop of insert: walk back from the end while the entry hashes
\* strictly above u
RECURSIVE ScanBack(_, _, _)
ScanBack(deq, u, i) ==
    IF i > 0 /\ ~(Hash(deq[i].mmer) <= Hash(u))
    THEN ScanBack(deq, u, i - 1)
    ELSE i

\* a queue whose front never expires
QueueInsertNoExpiry(q, u) ==
    LET i == ScanBack(q.deq, u, Len(q.deq))
    IN  [q EXCEPT !.deq = Append(SubSeq(q.deq, 1, i), [mmer |-> u, t |-> q.time]),
                  !.time = (q.time + 1) % q.width]

\* MinimizerQueue::insert
QueueInsert(q, u) ==
    LET i == ScanBack(q.deq, u, Len(q.deq))
        truncated == SubSeq(q.deq, 1, i)
        popped == IF i > 0 /\ truncated[1].t = q.time
                  THEN Tail(truncated) ELSE truncated
    IN  [q EXCEPT !.deq = Append(popped, [mmer |-> u, t |-> q.time]),
                  !.time = (q.time + 1) % q.width]

InitQueue ==
    /\ IdleButQueue
    /\ \E km \in QueueKM : queue = QueueNew(km[1], km[2])
    /\ stream = <<>>

Insert ==
    /\ Len(stream) < MaxInserts
    /\ \E u \in QueueMmers :
          /\ queue' = QueueInsert(queue, u)
          /\ stream' = Append(stream, u)
    /\ UNCHANGED OthersOfQueue

NextQueue == Insert

SpecQueue == InitQueue /\ [][NextQueue]_vars

\* the last min(n, W) inserted m-mers
Window(st, w) == Slice(st, Max2(0, Len(st) - w), Len(st))
SeqElems(sq) == {sq[j] : j \in 1..Len(sq)}

\* brute-force sliding-window minimum: the m-mer of least hash in the window
BruteForceMin(win) ==
    CHOOSE x \in SeqElems(win) : \A y \in SeqElems(win) : Hash(x) <= Hash(y)

\* C4: after the n-th insert (n >= 1) get_min() is an m-mer of the last
\* min(n, W) inserted m-mers whose hash is minimal among them, i.e. it equals
\* the brute-force sliding-window minimum; an m-mer that is no longer among
\* the last W inserted m-mers is not reported.
C4_GetMinIsWindowMinimum ==
    Len(stream) >= 1 =>
        LET win == Window(stream, queue.width)
        IN  /\ GetMin(queue) \in SeqElems(win)
            /\ \A y \in SeqElems(win) : Hash(GetMin(queue)) <= Hash(y)
            /\ GetMin(queue) = BruteForceMin(win)

\* the least-hash m-mer of the stream has left a window of 3 and the
\* minimum reported is another m-mer
C4_Witness ==
    /\ queue.width = 3
    /\ Len(stream) > 3
    /\ stream[Len(stream) - 3] = 0
    /\ 0 \notin SeqElems(Window(stream, 3))
    /\ GetMin(queue) = 22

\* the deque holds between 1 and W entries in pairwise distinct slots
QueueWellFormed ==
    /\ Len(queue.deq) >= 1
    /\ Len(queue.deq) <= queue.width
    /\ \A a, b \in 1..Len(queue.deq) : a # b => queue.deq[a].t # queue.deq[b].t

HashBits == 12      \* width of a hash value (u64 in the code)
BlockBits == 2      \* log2 of the block size (12 - 3 in the code)
MaxKey == 1         \* keys are 0..MaxKey
MaxSeed == 2        \* seeds are 0..MaxSeed
MaxHashes == 2      \* n_hashes is 1..MaxHashes
MaxCalls == 3       \* calls started by all workers together
U8_MAX == 255       \* the cells are u8

Workers == {1, 2}
Keys == 0..MaxKey
BloomSizes == {8, 16}
BloomShardAmounts == {2}

Pow2(n) == 2 ^ n
BLOCK_SIZE == Pow2(BlockBits)
BLOCK_MASK == BLOCK_SIZE - 1
\* u & BLOCK_PREFIX, with BLOCK_PREFIX = !BLOCK_MASK
AndBlockPrefix(u) == u - (u % BLOCK_SIZE)
\* a & BLOCK_MASK
AndBlockMask(a) == a % BLOCK_SIZE

\* usize::next_power_of_two and trailing_zeros of the result
NextPowerOfTwo(n) ==
    IF n <= 1 THEN 1
    ELSE Pow2(CHOOSE k \in 1..HashBits : Pow2(k) >= n /\ Pow2(k - 1) < n)
TrailingZeros(p) == CHOOSE k \in 0..HashBits : Pow2(k) = p

\* CountingBloomFilter::new_with_seed_and_shard_amount (the fields)
NewWithSeedAndShardAmount(size, n_hashes, seed, shard_amount) ==
    LET amount == NextPowerOfTwo(shard_amount)
        shard_shift == TrailingZeros(amount)
        shard_size == (((size \div Pow2(shard_shift)) + (BLOCK_SIZE - 1))
                          \div BLOCK_SIZE) * BLOCK_SIZE
    IN  [shard_shift |-> shard_shift, shard_size |-> shard_size,
         n_hashes |-> n_hashes, seed |-> seed]

\* the shards it allocates: 2^shard_shift vectors of shard_size zeros
NewShards(f) == [i \in 0..(Pow2(f.shard_shift) - 1) |->
                    [p \in 0..(f.shard_size - 1) |-> 0]]

\* hash_builder.hash_one(x) for the builder seeded with s
HashOne(s, x) ==
    (((x + 7 * s + 3 * x * s + 1) % Pow2(HashBits)) * 2357) % Pow2(HashBits)

\* CountingBloomFilter::hashes
Hashes(f, x) == <<HashOne(f.seed, x), HashOne(f.seed + 4, x)>>

\* h0 >> (64 - shard_shift): a shift by the full width wraps to a shift by 0
\* in a build without overflow checks
ShiftRight(h, n) == h \div Pow2(n % HashBits)

\* the probes after the first without the mask that keeps them in the block
RECURSIVE ProbesAcrossBlocks(_, _, _, _)
ProbesAcrossBlocks(block_addr, local_addr, v, n) ==
    IF n <= 0 THEN <<>>
    ELSE <<block_addr + local_addr + v>>
            \o ProbesAcrossBlocks(block_addr, local_addr + v, v, n - 1)

\* the for_each of shard_indices: the probes after the first
RECURSIVE Probes(_, _, _, _)
Probes(block_addr, local_addr, v, n) ==
    IF n <= 0 THEN <<>>
    ELSE LET next_addr == AndBlockMask(local_addr + v)
         IN  <<block_addr + next_addr>> \o Probes(block_addr, next_addr, v, n - 1)

\* CountingBloomFilter::shard_indices
ShardIndices(f, x) ==
    LET h == Hashes(f, x)
        u == h[1] % f.shard_size
    IN  [shard_idx |-> ShiftRight(h[1], HashBits - f.shard_shift),
         indices |-> <<u>> \o Probes(AndBlockPrefix(u), u, h[2], f.n_hashes - 1)]

\* a cell that stops at 1, as a bit of the membership filter does
SaturatingAdd1AsBit(c) == IF c >= 1 THEN 1 ELSE c + 1

\* u8::wrapping_add(1)
WrappingAdd1(c) == (c + 1) % (U8_MAX + 1)

\* u8::saturating_add(1)
SaturatingAdd1(c) == IF c >= U8_MAX THEN U8_MAX ELSE c + 1

RECURSIVE SeqMin(_)
SeqMin(sq) == IF Len(sq) = 1 THEN sq[1] ELSE Min2(sq[1], SeqMin(Tail(sq)))

\* CountingBloomFilter::count on the cells sh (the read latch held)
Count(f, sh, x) ==
    LET si == ShardIndices(f, x)
    IN  SeqMin([j \in 1..Len(si.indices) |-> sh[si.shard_idx][si.indices[j]]])

\* the for_each of add on one shard's cells: increments in index order
RECURSIVE AddEach(_, _)
AddEach(cells, indices) ==
    IF indices = <<>> THEN cells
    ELSE AddEach([cells EXCEPT ![indices[1]] = SaturatingAdd1(cells[indices[1]])],
                 Tail(indices))

\* CountingBloomFilter::add on the cells sh (the write latch held)
Add(f, sh, x) ==
    LET si == ShardIndices(f, x)
    IN  [sh EXCEPT ![si.shard_idx] = AddEach(sh[si.shard_idx], si.indices)]

\* the map of add_and_count: the value of each cell right after its increment
RECURSIVE AddEachValues(_, _)
AddEachValues(cells, indices) ==
    IF indices = <<>> THEN <<>>
    ELSE LET c == SaturatingAdd1(cells[indices[1]])
         IN  <<c>> \o AddEachValues([cells EXCEPT ![indices[1]] = c], Tail(indices))

\* CountingBloomFilter::add_and_count (the write latch held): the new cells
\* and the value returned
AddAndCount(f, sh, x) ==
    LET si == ShardIndices(f, x)
    IN  [shards |-> [sh EXCEPT ![si.shard_idx] = AddEach(sh[si.shard_idx], si.indices)],
         count |-> SeqMin(AddEachValues(sh[si.shard_idx], si.indices))]

\* crate::lock::RwLock, a reader-writer latch: one writer, or any number of
\* readers
RwNew == [writer |-> 0, readers |-> {}]
RwCanWrite(l) == l.writer = 0 /\ l.readers = {}
RwCanRead(l) == l.writer = 0
RwWrite(l, t) == [l EXCEPT !.writer = t]
RwRead(l, t) == [l EXCEPT !.readers = @ \cup {t}]
RwRelease(l, t) ==
    [writer |-> IF l.writer = t THEN 0 ELSE l.writer, readers |-> l.readers \ {t}]

\* _yield_read_shard(i): self.shards[i].read()
YieldReadShard(lk, i, t) ==
    [ok |-> RwCanRead(lk[i]), locks |-> [lk EXCEPT ![i] = RwRead(lk[i], t)]]

\* a write guard obtained through read(): writers no longer exclude each other
YieldWriteShardShared(lk, i, t) ==
    [ok |-> RwCanRead(lk[i]), locks |-> [lk EXCEPT ![i] = RwRead(lk[i], t)]]

\* _yield_write_shard(i): self.shards[i].write()
YieldWriteShard(lk, i, t) ==
    [ok |-> RwCanWrite(lk[i]), locks |-> [lk EXCEPT ![i] = RwWrite(lk[i], t)]]

ThreadIdle ==
    [pc |-> "idle", op |-> "none", key |-> 0, shard_idx |-> 0, indices |-> <<>>,
     j |-> 1, tmp |-> 0, acc |-> U8_MAX, res |-> 0, seen |-> 0]

BloomOps == {"count", "add", "add_and_count"}

\* the increments one add / add_and_count call addresses to its shard's cells
RECURSIVE Address(_, _)
Address(counts, indices) ==
    IF indices = <<>> THEN counts
    ELSE Address([counts EXCEPT ![indices[1]] = @ + 1], Tail(indices))

\* the cells after n calls add(x), one after the other: every call does one
\* saturating_add(1) per probe, n of them stop at U8_MAX like one
\* saturating_add(n)
AddTimes(f, sh, x, n) ==
    LET si == ShardIndices(f, x)
        hits == Address([p \in DOMAIN sh[si.shard_idx] |-> 0], si.indices)
    IN  [sh EXCEPT ![si.shard_idx] =
            [p \in DOMAIN @ |-> Min2(U8_MAX, @[p] + n * hits[p])]]

\* the increments those n calls address
AddressTimes(counts, si, n) ==
    [counts EXCEPT ![si.shard_idx] =
        [p \in DOMAIN @ |-> @[p] + n * (Address(@, si.indices)[p] - @[p])]]

InitBloom ==
    /\ IdleButBloom
    /\ \E size \in BloomSizes, n_hashes \in 1..MaxHashes, seed \in 0..MaxSeed,
          shard_amount \in BloomShardAmounts :
          filter = NewWithSeedAndShardAmount(size, n_hashes, seed, shard_amount)
    /\ shards = NewShards(filter)
    /\ locks = [i \in DOMAIN shards |-> RwNew]
    /\ th = [t \in Workers |-> ThreadIdle]
    /\ calls = 0
    /\ completed = [x \in Keys |-> 0]
    /\ addressed = [i \in DOMAIN shards |-> [p \in DOMAIN shards[i] |-> 0]]

\* a filter to which key 0 was added U8_MAX - 1 times before the workers
\* start; with seed 1 the two probes of key 0 are the same cell
SaturatingSeeds == {0, 1}

InitSaturating ==
    /\ IdleButBloom
    /\ \E n_hashes \in 1..MaxHashes, seed \in SaturatingSeeds,
          shard_amount \in BloomShardAmounts :
          filter = NewWithSeedAndShardAmount(BLOCK_SIZE * 2, n_hashes, seed,
                                             shard_amount)
    /\ locks = [i \in DOMAIN NewShards(filter) |-> RwNew]
    /\ th = [t \in Workers |-> ThreadIdle]
    /\ calls = 0
    /\ shards = AddTimes(filter, NewShards(filter), 0, U8_MAX - 1)
    /\ completed = [y \in Keys |-> IF y = 0 THEN U8_MAX - 1 ELSE 0]
    /\ addressed =
          AddressTimes([i \in DOMAIN NewShards(filter) |->
                           [p \in DOMAIN NewShards(filter)[i] |-> 0]],
                       ShardIndices(filter, 0), U8_MAX - 1)

\* a worker enters count(x), add(x) or add_and_count(x): shard_indices(x)
Call(t) ==
    /\ th[t].pc = "idle" /\ calls < MaxCalls
    /\ \E op \in BloomOps, x \in Keys :
          LET si == ShardIndices(filter, x)
          IN  /\ th' = [th EXCEPT ![t] =
                        [ThreadIdle EXCEPT !.pc = "latch", !.op = op, !.key = x,
                                           !.shard_idx = si.shard_idx,
                                           !.indices = si.indices,
                                           !.seen = completed[x]]]
              /\ addressed' = IF op = "count" THEN addressed
                               ELSE [addressed EXCEPT ![si.shard_idx] =
                                        Address(@, si.indices)]
    /\ calls' = calls + 1
    /\ UNCHANGED <<filter, shards, locks, completed>>
    /\ UNCHANGED OthersOfBloom

\* count takes the shard's latch for reading
LatchRead(t) ==
    /\ th[t].pc = "latch" /\ th[t].op = "count"
    /\ LET g == YieldReadShard(locks, th[t].shard_idx, t)
       IN  g.ok /\ locks' = g.locks
    /\ th' = [th EXCEPT ![t].pc = "load"]
    /\ UNCHANGED <<filter, shards, calls, completed, addressed>>
    /\ UNCHANGED OthersOfBloom

\* add and add_and_count take it for writing
LatchWrite(t) ==
    /\ th[t].pc = "latch" /\ th[t].op # "count"
    /\ LET g == YieldWriteShard(locks, th[t].shard_idx, t)
       IN  g.ok /\ locks' = g.locks
    /\ th' = [th EXCEPT ![t].pc = "load"]
    /\ UNCHANGED <<filter, shards, calls, completed, addressed>>
    /\ UNCHANGED OthersOfBloom

\* the read of shard[i]; count folds it into its minimum
Load(t) ==
    /\ th[t].pc = "load"
    /\ LET c == shards[th[t].shard_idx][th[t].indices[th[t].j]]
       IN  th' = [th EXCEPT ![t] =
                IF th[t].op = "count"
                THEN [@ EXCEPT !.acc = Min2(@, c), !.j = @ + 1,
                               !.pc = IF th[t].j = Len(th[t].indices)
                                      THEN "release" ELSE "load"]
                ELSE [@ EXCEPT !.tmp = c, !.pc = "store"]]
    /\ UNCHANGED <<filter, shards, locks, calls, completed, addressed>>
    /\ UNCHANGED OthersOfBloom

\* shard[i] = (value read).saturating_add(1); add_and_count folds the new
\* value into its minimum
Store(t) ==
    /\ th[t].pc = "store"
    /\ LET c == SaturatingAdd1(th[t].tmp)
       IN  /\ shards' = [shards EXCEPT ![th[t].shard_idx][th[t].indices[th[t].j]] = c]
           /\ th' = [th EXCEPT ![t] =
                     [@ EXCEPT !.acc = Min2(@, c), !.j = @ + 1,
                               !.pc = IF th[t].j = Len(th[t].indices)
                                      THEN "release" ELSE "load"]]
    /\ UNCHANGED <<filter, locks, calls, completed, addressed>>
    /\ UNCHANGED OthersOfBloom

\* the guard is dropped and the call returns
Release(t) ==
    /\ th[t].pc = "release"
    /\ locks' = [locks EXCEPT ![th[t].shard_idx] = RwRelease(@, t)]
    /\ th' = [th EXCEPT ![t].pc = "idle", ![t].res = th[t].acc]
    /\ completed' = IF th[t].op = "count" THEN completed
                     ELSE [completed EXCEPT ![th[t].key] = @ + 1]
    /\ UNCHANGED <<filter, shards, calls, addressed>>
    /\ UNCHANGED OthersOfBloom

NextBloom ==
    \E t \in Workers :
        Call(t) \/ LatchRead(t) \/ LatchWrite(t) \/ Load(t) \/ Store(t) \/ Release(t)

SpecBloom == InitBloom /\ [][NextBloom]_vars

\* the same workers on a filter with cells close to U8_MAX
SpecSaturating == InitSaturating /\ [][NextBloom]_vars

AllIdle == \A t \in Workers : th[t].pc = "idle"

\* C1: after any sequence of add / add_and_count calls by any number of
\* workers, count(x) >= min(n, 255) for every key x, n being the number of
\* add(x) and add_and_count(x) calls completed so far: the cells always give
\* at least that count, and every value a count or add_and_count call has
\* returned is at least the number of calls completed when it was entered
\* (plus its own increment for add_and_count).
C1_NoFalseNegatives ==
    /\ \A x \in Keys : Count(filter, shards, x) >= Min2(completed[x], U8_MAX)
    /\ \A t \in Workers :
          (th[t].pc = "idle" /\ th[t].op = "count")
              => th[t].res >= Min2(th[t].seen, U8_MAX)
    /\ \A t \in Workers :
          (th[t].pc = "idle" /\ th[t].op = "add_and_count")
              => th[t].res >= Min2(th[t].seen + 1, U8_MAX)

\* a key added twice (once by add, once by add_and_count) is counted 2
\* by a later count call
C1_Witness ==
    \E t \in Workers, u \in Workers :
        /\ t # u
        /\ th[t].pc = "idle" /\ th[t].op = "count" /\ th[t].seen = 2
        /\ th[t].res = 2
        /\ th[u].pc = "idle" /\ th[u].op = "add_and_count" /\ th[u].key = th[t].key
        /\ completed[th[t].key] = 2

\* C2: concurrent add / add_and_count calls never lose an update: once all
\* calls have completed, every cell holds min(255, number of increments
\* addressed to it), as after any sequential ordering of the same calls.
C2_NoLostUpdate ==
    AllIdle =>
        \A i \in DOMAIN shards : \A p \in DOMAIN shards[i] :
            shards[i][p] = Min2(U8_MAX, addressed[i][p])

\* both workers have completed an add on different keys that share a cell,
\* and the cell holds both increments
C2_Witness ==
    /\ AllIdle
    /\ th[1].op = "add" /\ th[2].op = "add_and_count"
    /\ th[1].key # th[2].key
    /\ th[1].shard_idx = th[2].shard_idx
    /\ \E p \in SeqElems(th[1].indices) \cap SeqElems(th[2].indices) :
          /\ addressed[th[1].shard_idx][p] = 2
          /\ shards[th[1].shard_idx][p] = 2

\* the cells of key x: its shard and the set of its indices
CellsOf(x) ==
    LET si == ShardIndices(filter, x)
    IN  {<<si.shard_idx, si.indices[j]>> : j \in 1..Len(si.indices)}

\* no cell of x is addressed by an add of another key
Unshared(x) ==
    \A y \in Keys \ {x} : completed[y] > 0 => CellsOf(x) \cap CellsOf(y) = {}

\* C16: for a key x none of whose cells is addressed by an add of another
\* key, once n calls add(x) / add_and_count(x) have completed and no call is
\* running, count(x) is exactly min(n, 255); it is 0 for a key never added.
C16_ExactCountWhenUnshared ==
    AllIdle =>
        \A x \in Keys :
            Unshared(x) => Count(filter, shards, x) = Min2(completed[x], U8_MAX)

\* C19: every counter cell is monotone non-decreasing over every step and
\* never exceeds 255; a cell that holds 255 holds 255 after every later step
\* (an add on a saturated cell neither wraps nor fails), and a step of a
\* count call changes no cell.
C19_CellsMonotoneSaturating ==
    [][/\ \A i \in DOMAIN shards : \A p \in DOMAIN shards[i] :
              /\ shards'[i][p] >= shards[i][p]
              /\ shards'[i][p] <= U8_MAX
              /\ shards[i][p] = U8_MAX => shards'[i][p] = U8_MAX
       /\ \A t \in Workers :
              (th'[t] # th[t] /\ th'[t].op = "count") => shards' = shards]_vars

\* an add on a key whose cells hold 255 has completed, the cells still hold
\* 255, and a count call has returned 255
C19_Witness ==
    \E t \in Workers, u \in Workers :
        /\ th[t].pc = "idle" /\ th[t].op = "add"
        /\ completed[th[t].key] > U8_MAX
        /\ Count(filter, shards, th[t].key) = U8_MAX
        /\ th[u].pc = "idle" /\ th[u].op = "count" /\ th[u].key = th[t].key
        /\ th[u].res = U8_MAX

\* C27: add_and_count(x) is add(x) followed by count(x) under one write
\* latch: the value it returns is the minimum of x's cells after all its
\* increments, which is what count(x) gives right after it, also for a key
\* whose positions are not all distinct
C27_AddAndCountIsAddThenCount ==
    \A t \in DOMAIN th :
        (th[t].pc = "release" /\ th[t].op = "add_and_count") =>
            th[t].acc = Count(filter, shards, th[t].key)

\* ---- shard_indices on its own ----
MaxProbeHashes == 4     \* n_hashes is 1..MaxProbeHashes
MaxProbeKey == 7        \* keys are 0..MaxProbeKey
ProbeSizes == {8, 24, 63}
ProbeShardAmounts == {0, 1, 2, 3, 4}

InitProbes ==
    /\ IdleButBloom
    /\ \E size \in ProbeSizes, n_hashes \in 1..MaxProbeHashes, seed \in 0..MaxSeed,
          shard_amount \in ProbeShardAmounts :
          filter = NewWithSeedAndShardAmount(size, n_hashes, seed, shard_amount)
    /\ shards = NewShards(filter)
    /\ locks = [i \in DOMAIN shards |-> RwNew]
    /\ th = [t \in {1} |-> ThreadIdle]
    /\ calls = 0
    /\ completed = <<>>
    /\ addressed = <<>>

\* self.shard_indices(x) returns
ShardIndicesCall ==
    /\ th[1].pc = "idle"
    /\ \E x \in 0..MaxProbeKey :
          LET si == ShardIndices(filter, x)
          IN  th' = [th EXCEPT ![1] =
                       [ThreadIdle EXCEPT !.pc = "probed", !.key = x,
                                          !.shard_idx = si.shard_idx,
                                          !.indices = si.indices]]
    /\ UNCHANGED <<filter, shards, locks, calls, completed, addressed>>
    /\ UNCHANGED OthersOfBloom

SpecProbes == InitProbes /\ [][ShardIndicesCall]_vars

\* the positions of a key with hashes h0 and h1 in a shard of shard_size cells
\* and blocks of B cells, as the formula gives them
PositionFormula(h0, h1, shard_size, B, j) ==
    IF j = 0 THEN h0 % shard_size
    ELSE ((h0 % shard_size) - ((h0 % shard_size) % B))
            + (((h0 % shard_size) + j * h1) % B)

\* C26: the H positions that shard_indices returns for a key with hashes
\* (h0, h1) are p0 = h0 mod shard_size and
\* pj = (p0 & ~(B-1)) | ((p0 + j*v) & (B-1)) for 1 <= j < H, v = h1; they
\* belong to one shard, the one the top shard_shift bits of h0 select, lie in
\* the same B-aligned block and are < shard_size, a multiple of B.
C26_PositionsInOneBlock ==
    th[1].pc = "probed" =>
        LET h0 == HashOne(filter.seed, th[1].key)
            h1 == HashOne(filter.seed + 4, th[1].key)
            B == 2 ^ BlockBits
            idx == th[1].indices
        IN  /\ filter.shard_size % B = 0
            /\ Len(idx) = filter.n_hashes
            /\ \A j \in 1..Len(idx) :
                  /\ idx[j] = PositionFormula(h0, h1, filter.shard_size, B, j - 1)
                  /\ idx[j] >= 0 /\ idx[j] < filter.shard_size
                  /\ idx[j] \div B = idx[1] \div B
            /\ filter.shard_shift >= 1 =>
                  /\ th[1].shard_idx = h0 \div (2 ^ (HashBits - filter.shard_shift))
                  /\ th[1].shard_idx \in DOMAIN shards

\* a key with four positions, not all equal, the last one wrapped around to
\* the start of a block that is not the first of its shard
C26_Witness ==
    /\ th[1].pc = "probed"
    /\ filter.n_hashes = 4
    /\ filter.shard_size > 2 ^ BlockBits
    /\ th[1].indices[1] >= 2 ^ BlockBits
    /\ th[1].indices[4] < th[1].indices[1]
    /\ th[1].indices[2] # th[1].indices[1]

\* C33: for every requested shard_amount, rounded up to a power of two N,
\* the shift WIDTH - log2(N) that selects the shard is below the width of the
\* hash (0..63 in the code) and the shard index is below N, so the unchecked
\* access to the shard is in range, also when N = 1.
C33_ShardIndexInRange ==
    th[1].pc = "probed" =>
        /\ HashBits - filter.shard_shift \in 0..(HashBits - 1)
        /\ th[1].shard_idx \in 0..(Pow2(filter.shard_shift) - 1)
        /\ th[1].shard_idx \in DOMAIN shards

(***************************************************************************)
(*           BIT BLOOM FILTER AND CASCADE OF THEM (dashbloom.rs)           *)
(*                                                                         *)
(* BloomFilter has the fields, the hashes and the shard_indices of the     *)
(* counting filter over shards of bits; its block of 2^12 bits is scaled   *)
(* to 2^BlockBits like the block of the counting filter.                   *)
(***************************************************************************)
MaxSketches == 2    \* a cascade has 1..MaxSketches sketches
MaxBitCalls == 3    \* calls started by all workers together

\* BloomFilter::new_with_seed_and_shard_amount (the fields)
BfNewWithSeedAndShardAmount(size, n_hashes, seed, shard_amount) ==
    NewWithSeedAndShardAmount(size, n_hashes, seed, shard_amount)

\* the shards it allocates: BitVec::from_elem(shard_size, false)
BfNewShards(f) == [i \in 0..(Pow2(f.shard_shift) - 1) |->
                      [p \in 0..(f.shard_size - 1) |-> FALSE]]

\* BloomFilter::shard_indices
BfShardIndices(f, x) == ShardIndices(f, x)

\* shard.get(i).unwrap_or(false)
BitGet(shard, i) == IF i \in DOMAIN shard THEN shard[i] ELSE FALSE
\* shard.set(i, true)
BitSet(shard, i) == [shard EXCEPT ![i] = TRUE]

\* one probe of contains: Iterator::all stops at the first bit that is unset
ContainsStep(shard, i, acc) ==
    [shard |-> shard, acc |-> BitGet(shard, i), stop |-> ~BitGet(shard, i)]

\* one probe of insert
InsertStep(shard, i, acc) ==
    [shard |-> BitSet(shard, i), acc |-> acc, stop |-> FALSE]

\* missing = !shard.get(i): the flag follows the last probe
IfMissingStepLast(shard, i, acc) ==
    [shard |-> BitSet(shard, i), acc |-> ~BitGet(shard, i), stop |-> FALSE]

\* one probe of insert_if_missing: if !shard.get(i) { missing = true; set }
IfMissingStep(shard, i, acc) ==
    IF ~BitGet(shard, i)
    THEN [shard |-> BitSet(shard, i), acc |-> TRUE, stop |-> FALSE]
    ELSE [shard |-> shard, acc |-> acc, stop |-> FALSE]

BitStep(sub, shard, i, acc) ==
    IF sub = "contains" THEN ContainsStep(shard, i, acc)
    ELSE IF sub = "insert" THEN InsertStep(shard, i, acc)
    ELSE IfMissingStep(shard, i, acc)

\* BloomFilter::contains on the bits b of one sketch
BfContains(f, b, x) ==
    LET si == BfShardIndices(f, x)
    IN  \A j \in 1..Len(si.indices) : BitGet(b[si.shard_idx], si.indices[j])

\* rng.gen() of the SmallRng seeded with seed: the l-th value drawn
RngGen(seed, l) == HashOne(seed, l) % (MaxSeed + 1)

\* CascadingBloomFilter::new_with_seed_and_shard_amount: one BloomFilter per
\* pair of sizes.zip(ns_hashes), each with a seed drawn from the generator
CascadeNew(sizes, ns_hashes, seed, shard_amount) ==
    [l \in 1..Min2(Len(sizes), Len(ns_hashes)) |->
        BfNewWithSeedAndShardAmount(sizes[l], ns_hashes[l], RngGen(seed, l),
                                    shard_amount)]

\* CascadingBloomFilter::contains on the bits of all sketches
CascadeContains(x) == \A l \in DOMAIN bfs : BfContains(bfs[l], bits[l], x)

\* Iterator::any stops at the first sketch that never stops the walk
AnyNeverDone(r) == FALSE
\* Iterator::any stops at the first sketch whose insert_if_missing is true
AnyDone(r) == r
\* Iterator::all stops at the first sketch whose contains is false
AllDone(r) == ~r

BfThreadIdle ==
    [pc |-> "idle", op |-> "none", sub |-> "none", key |-> 0, level |-> 1,
     shard_idx |-> 0, indices |-> <<>>, j |-> 1, acc |-> FALSE, res |-> FALSE,
     pre |-> FALSE, seen |-> 0]

\* the worker w enters a method of sketch l: shard_indices(x)
AtSketch(w, l) ==
    LET si == BfShardIndices(bfs[l], w.key)
    IN  [w EXCEPT !.pc = "latch", !.level = l, !.shard_idx = si.shard_idx,
                  !.indices = si.indices, !.j = 1]

BfOps == {"contains", "insert", "insert_if_missing"}
BitSizes == {BLOCK_SIZE * 2}

\* the state the bit filters start from, given the sketches
InitSketches(sketches) ==
    /\ bfs = sketches
    /\ bits = [l \in DOMAIN sketches |-> BfNewShards(sketches[l])]
    /\ bf_locks = [l \in DOMAIN sketches |->
                      [i \in DOMAIN BfNewShards(sketches[l]) |-> RwNew]]
    /\ bth = [t \in Workers |-> BfThreadIdle]
    /\ bf_calls = 0
    /\ inserted = [x \in Keys |-> [started |-> 0, completed |-> 0]]

\* ---- one BloomFilter ----
InitBits ==
    /\ IdleButBit
    /\ \E size \in BitSizes, n_hashes \in 1..MaxHashes, seed \in 0..MaxSeed,
          shard_amount \in BloomShardAmounts :
          InitSketches(<<BfNewWithSeedAndShardAmount(size, n_hashes, seed,
                                                     shard_amount)>>)

\* a worker enters contains(x), insert(x) or insert_if_missing(x)
BfCall(t) ==
    /\ bth[t].pc = "idle" /\ bf_calls < MaxBitCalls
    /\ \E op \in BfOps, x \in Keys :
          /\ bth' = [bth EXCEPT ![t] =
                       AtSketch([BfThreadIdle EXCEPT !.op = op, !.sub = op,
                                    !.key = x, !.seen = inserted[x].completed], 1)]
          /\ inserted' = IF op = "contains" THEN inserted
                          ELSE [inserted EXCEPT ![x].started = @ + 1]
    /\ bf_calls' = bf_calls + 1
    /\ UNCHANGED <<bfs, bits, bf_locks>>
    /\ UNCHANGED OthersOfBit

\* _yield_read_shard for contains, _yield_write_shard for the inserts
BfYield(sub, lk, i, t) ==
    IF sub = "contains" THEN YieldReadShard(lk, i, t) ELSE YieldWriteShard(lk, i, t)

\* some bit of the call's key is unset in the shard
SomeBitUnset(shard, indices) ==
    \E j \in 1..Len(indices) : ~BitGet(shard, indices[j])

BfLatch(t) ==
    /\ bth[t].pc = "latch"
    /\ LET g == BfYield(bth[t].sub, bf_locks[bth[t].level], bth[t].shard_idx, t)
       IN  /\ g.ok
           /\ bf_locks' = [bf_locks EXCEPT ![bth[t].level] = g.locks]
    /\ bth' = [bth EXCEPT ![t].pc = "bit",
                          ![t].acc = (bth[t].sub = "contains"),
                          ![t].pre = SomeBitUnset(bits[bth[t].level][bth[t].shard_idx],
                                                  bth[t].indices)]
    /\ UNCHANGED <<bfs, bits, bf_calls, inserted>>
    /\ UNCHANGED OthersOfBit

\* the body of the method reaches its next probe
BfBitApply(t, w, r) ==
    /\ bits' = [bits EXCEPT ![w.level][w.shard_idx] = r.shard]
    /\ bth' = [bth EXCEPT ![t] =
                 [w EXCEPT !.acc = r.acc, !.j = @ + 1,
                           !.pc = IF r.stop \/ w.j = Len(w.indices)
                                  THEN "release" ELSE "bit"]]

BfBit(t) ==
    /\ bth[t].pc = "bit"
    /\ BfBitApply(t, bth[t],
                  BitStep(bth[t].sub, bits[bth[t].level][bth[t].shard_idx],
                          bth[t].indices[bth[t].j], bth[t].acc))
    /\ UNCHANGED <<bfs, bf_locks, bf_calls, inserted>>
    /\ UNCHANGED OthersOfBit

\* the call returns r
Returned(w, r) == [w EXCEPT !.pc = "idle", !.res = r]
Completed(w) ==
    IF w.op = "contains" THEN inserted
    ELSE [inserted EXCEPT ![w.key].completed = @ + 1]

\* the guard is dropped and the method of the BloomFilter returns
BfReturn(t) ==
    /\ bth[t].pc = "release"
    /\ bf_locks' = [bf_locks EXCEPT ![bth[t].level][bth[t].shard_idx] = RwRelease(@, t)]
    /\ bth' = [bth EXCEPT ![t] = Returned(@, @.acc)]
    /\ inserted' = Completed(bth[t])
    /\ UNCHANGED <<bfs, bits, bf_calls>>
    /\ UNCHANGED OthersOfBit

NextBits ==
    \E t \in Workers : BfCall(t) \/ BfLatch(t) \/ BfBit(t) \/ BfReturn(t)

SpecBits == InitBits /\ [][NextBits]_vars

\* ---- a cascade of BloomFilters ----
CascadeOps == {"contains", "insert", "insert_if_missing"}

CascadeSeeds == {0, 1}
\* fewer hashes from one sketch to the next, as in test_cascading
NsHashes(L) == [l \in 1..L |-> Max2(1, MaxHashes + 1 - l)]

InitCascade ==
    /\ IdleButBit
    /\ \E L \in 2..MaxSketches, seed \in CascadeSeeds, size \in BitSizes,
          shard_amount \in BloomShardAmounts :
          InitSketches(CascadeNew([l \in 1..L |-> size], NsHashes(L), seed,
                                  shard_amount))

\* a worker enters contains(x), insert(x) or insert_if_missing(x) of the
\* cascade: insert calls insert_if_missing; the walk starts at the first sketch
CascadeCall(t) ==
    /\ bth[t].pc = "idle" /\ bf_calls < MaxBitCalls
    /\ \E op \in CascadeOps, x \in Keys :
          /\ bth' = [bth EXCEPT ![t] =
                       AtSketch([BfThreadIdle EXCEPT !.op = op,
                                    !.sub = IF op = "contains" THEN "contains"
                                            ELSE "insert_if_missing",
                                    !.key = x, !.seen = inserted[x].completed], 1)]
          /\ inserted' = IF op = "contains" THEN inserted
                          ELSE [inserted EXCEPT ![x].started = @ + 1]
    /\ bf_calls' = bf_calls + 1
    /\ UNCHANGED <<bfs, bits, bf_locks>>
    /\ UNCHANGED OthersOfBit

\* the walk over the sketches ends after the method of this one returned r
WalkDone(w, r) ==
    \/ w.level = Len(bfs)
    \/ IF w.sub = "contains" THEN AllDone(r) ELSE AnyDone(r)

\* the method of one sketch returns: the walk ends or goes to the next sketch
CascadeStep(t) ==
    /\ bth[t].pc = "release"
    /\ bf_locks' = [bf_locks EXCEPT ![bth[t].level][bth[t].shard_idx] = RwRelease(@, t)]
    /\ IF WalkDone(bth[t], bth[t].acc)
       THEN /\ bth' = [bth EXCEPT ![t] = Returned(@, @.acc)]
            /\ inserted' = Completed(bth[t])
       ELSE /\ bth' = [bth EXCEPT ![t] = AtSketch(@, @.level + 1)]
            /\ inserted' = inserted
    /\ UNCHANGED <<bfs, bits, bf_calls>>
    /\ UNCHANGED OthersOfBit

NextCascade ==
    \E t \in Workers : CascadeCall(t) \/ BfLatch(t) \/ BfBit(t) \/ CascadeStep(t)

SpecCascade == InitCascade /\ [][NextCascade]_vars

\* the bits of key x in sketch l: its shard and the set of its indices
SketchBits(l, x) ==
    LET si == BfShardIndices(bfs[l], x)
    IN  {<<si.shard_idx, si.indices[j]>> : j \in 1..Len(si.indices)}

\* x shares no bit with another inserted key in any sketch
SharesNoBit(x) ==
    \A l \in DOMAIN bfs : \A y \in Keys \ {x} :
        inserted[y].started > 0 => SketchBits(l, x) \cap SketchBits(l, y) = {}

\* C17: in a cascade of L sketches, under any interleaving of the workers'
\* calls, a key whose insert / insert_if_missing has completed L times is
\* contained from then on (in the bits, and for every contains call entered
\* after that), and a key that shares no bit with another inserted key is not
\* contained while fewer than L inserts of it have started.
C17_CascadeCountsInsertions ==
    /\ \A x \in Keys :
          /\ inserted[x].completed >= Len(bfs) => CascadeContains(x)
          /\ (SharesNoBit(x) /\ inserted[x].started < Len(bfs))
                => ~CascadeContains(x)
    /\ \A t \in Workers :
          (bth[t].pc = "idle" /\ bth[t].op = "contains") =>
              /\ bth[t].seen >= Len(bfs) => bth[t].res
              /\ (SharesNoBit(bth[t].key)
                     /\ inserted[bth[t].key].started < Len(bfs)) => ~bth[t].res

\* in a cascade of two sketches a key was inserted twice, the second time by
\* the other worker, and a contains call entered after that returned true
C17_Witness ==
    /\ Len(bfs) = 2
    /\ \E t \in Workers, u \in Workers :
          /\ t # u
          /\ bth[t].pc = "idle" /\ bth[t].op = "contains"
          /\ bth[t].seen = 2 /\ bth[t].res
          /\ bth[u].pc = "idle" /\ bth[u].op = "insert" /\ bth[u].key = bth[t].key
          /\ bth[u].res /\ bth[u].level = 2
          /\ inserted[bth[t].key].completed = 2

\* C18: for the bit BloomFilter, under any interleaving of the workers'
\* calls: insert_if_missing(x) returns true exactly when one of x's bits was
\* unset when the call took the shard's latch; once an insert or
\* insert_if_missing of x has completed all bits of x are set; no step clears a
\* bit; and every contains(x) entered after such a call returns true.
C18_BitsSetAndNeverCleared ==
    /\ [](\A t \in Workers :
             /\ (bth[t].pc = "idle" /\ bth[t].op = "insert_if_missing")
                   => bth[t].res = bth[t].pre
             /\ (bth[t].pc = "idle" /\ bth[t].op = "contains" /\ bth[t].seen > 0)
                   => bth[t].res)
    /\ [](\A x \in Keys :
             inserted[x].completed > 0 => BfContains(bfs[1], bits[1], x))
    /\ [][\A l \in DOMAIN bits : \A i \in DOMAIN bits[l] : \A p \in DOMAIN bits[l][i] :
             bits[l][i][p] => bits'[l][i][p]]_vars

\* a key was inserted, a later insert_if_missing of it found every bit set
\* and returned false, and a contains call of the other worker returned true
C18_Witness ==
    \E t \in Workers, u \in Workers :
        /\ t # u
        /\ bth[t].pc = "idle" /\ bth[t].op = "insert_if_missing"
        /\ ~bth[t].pre /\ ~bth[t].res
        /\ bth[u].pc = "idle" /\ bth[u].op = "contains" /\ bth[u].key = bth[t].key
        /\ bth[u].seen > 0 /\ bth[u].res
        /\ inserted[bth[t].key].completed = 2

(***************************************************************************)
(*                          PACKED K-MERS                                  *)
(*                                                                         *)
(* A k-mer of length k is the integer whose base-4 digits are its bases,   *)
(* first base most significant; the bases are A = 0, C = 1, G = 2, T = 3   *)
(* (complement is XOR with 3).                                             *)
(***************************************************************************)
Bases == 0..3

\* Base::from_nuc: the 2-bit code of an ACGT character, None for any other
FromNuc(c) ==
    CASE c \in {"A", "a"} -> Some(0)
      [] c \in {"C", "c"} -> Some(1)
      [] c \in {"G", "g"} -> Some(2)
      [] c \in {"T", "t"} -> Some(3)
      [] OTHER -> None

\* Base::to_nuc: the upper-case character of a base
ToNuc(b) == <<"A", "C", "G", "T">>[b + 1]

\* Kmer::new: the zero k-mer
KmerNew == 0
\* Kmer::extend: shift in a base during the warm-up, unmasked
KmerExtend(x, b) == x * 4 + b
\* Kmer::append: shift in a base and mask to 2k bits
KmerAppend(k, x, b) == (x * 4 + b) % (4 ^ k)
\* Kmer::to_bases: the k bases, first base first
ToBases(k, x) == [j \in 1..k |-> (x \div (4 ^ (k - j))) % 4]
\* Kmer::successors: append each base
Successors(k, x) == [b \in 1..4 |-> KmerAppend(k, x, b - 1)]
\* Kmer::predecessors: prepend each base
Predecessors(k, x) == [b \in 1..4 |-> (x \div 4) + (b - 1) * (4 ^ (k - 1))]
\* Kmer::rev_comp and Kmer::canonical
RECURSIVE RevCompDigits(_, _, _)
RevCompDigits(k, x, acc) ==
    IF k = 0 THEN acc ELSE RevCompDigits(k - 1, x \div 4, acc * 4 + (3 - (x % 4)))
ReverseComplement(k, x) == RevCompDigits(k, x, 0)
Canonical(k, x) == Min2(x, ReverseComplement(k, x))

(***************************************************************************)
(*                 CORRECTION OF ONE READ (correction.rs)                  *)
(***************************************************************************)
MaxReadLen == 7
MaxGapReadLen == 4

CorKs == {2, 3}
CorBases == {0, 1}
CorNucs == {ToNuc(b) : b \in CorBases}

\* the k-mers of length k spelled with CorBases only
CorKmers(k) == {x \in 0..(4 ^ k - 1) : \A j \in 1..k : ToBases(k, x)[j] \in CorBases}

SeqsUpTo(S, n) == UNION {[1..l -> S] : l \in 0..n}

\* the reads: every string over CorNucs, and the short ones with one 'N' inside
CorReads ==
    SeqsUpTo(CorNucs, MaxReadLen) \cup
    UNION {{Slice(r, 0, p) \o <<"N">> \o Slice(r, p, Len(r)) : p \in 0..Len(r)} :
              r \in SeqsUpTo(CorNucs, MaxGapReadLen)}

\* nucs.filter_map(T::from_nuc): the bases of the read, other characters dropped
RECURSIVE FilterMapFromNuc(_)
FilterMapFromNuc(ns) ==
    IF ns = <<>> THEN <<>>
    ELSE FromNuc(Head(ns)) \o FilterMapFromNuc(Tail(ns))

\* the position of the next character that from_nuc accepts, Len(ns) if none
RECURSIVE SkipTo(_, _)
SkipTo(ns, p) ==
    IF p >= Len(ns) THEN Len(ns)
    ELSE IF FromNuc(ns[p + 1]) # None THEN p
    ELSE SkipTo(ns, p + 1)

\* ---- find_path ----
HalfMaxDist(max_dist) == max_dist - (max_dist \div 2)

\* one round of pop_front / extend(successors filtered by solid)
RECURSIVE ExpandForward(_, _, _)
ExpandForward(k, S, f) ==
    IF f = <<>> THEN <<>>
    ELSE SelectSeq(Successors(k, Head(f)), LAMBDA x : x \in S)
            \o ExpandForward(k, S, Tail(f))

\* one round of pop_front / extend(predecessors filtered by solid)
RECURSIVE ExpandBackward(_, _, _)
ExpandBackward(k, S, f) ==
    IF f = <<>> THEN <<>>
    ELSE SelectSeq(Predecessors(k, Head(f)), LAMBDA x : x \in S)
            \o ExpandBackward(k, S, Tail(f))

IsSorted(q) == \A j \in 1..(Len(q) - 1) : q[j] <= q[j + 1]

\* VecDeque::binary_search(x).is_ok(): exact on a sorted deque; on an unsorted
\* one the result is unspecified, but Ok is only returned for a present element
BinarySearchOk(q, x) ==
    IF x \notin SeqElems(q) THEN {FALSE}
    ELSE IF IsSorted(q) THEN {TRUE}
    ELSE {TRUE, FALSE}

\* f.iter().filter_map(|x| q.binary_search(x).map(|_| *x).ok()).collect()
RECURSIVE Intersect(_, _)
Intersect(f, q) ==
    IF f = <<>> THEN {<<>>}
    ELSE UNION {{(IF b THEN <<Head(f)>> ELSE <<>>) \o r : r \in Intersect(Tail(f), q)} :
                    b \in BinarySearchOk(q, Head(f))}

\* the loop of find_path from round i: the possible (middle, dist) at its exit
RECURSIVE FindPathRounds(_, _, _, _, _, _)
FindPathRounds(k, S, forward, backward, i, half) ==
    IF i >= half THEN {[middle |-> <<>>, dist |-> <<0, 0>>]}
    ELSE LET f1 == ExpandForward(k, S, forward)
         IN  UNION {
               IF Len(m1) > 0 THEN {[middle |-> m1, dist |-> <<i + 1, i>>]}
               ELSE LET b1 == ExpandBackward(k, S, backward)
                    IN  UNION {
                          IF Len(m2) > 0
                          THEN {[middle |-> m2, dist |-> <<i + 1, i + 1>>]}
                          ELSE FindPathRounds(k, S, f1, b1, i + 1, half) :
                          m2 \in Intersect(b1, f1)} :
               m1 \in Intersect(f1, backward)}

\* find_path: the possible results, None or Some(<<middle, d0, d1>>)
FindPath(k, S, source, target, max_dist) ==
    {IF Len(r.middle) = 1
        THEN Some(<<r.middle[1], r.dist[1], r.dist[2]>>)
        ELSE None :
     r \in FindPathRounds(k, S, <<source>>, <<target>>, 0, HalfMaxDist(max_dist))}

\* ---- correct ----
\* weak_bases.drain((K - 1)..)
DrainFromK(k, w) == Slice(w, k, Len(w))
Drain(k, w) == Slice(w, k - 1, Len(w))

\* the repair window: error_size >= K - 1 && error_size <= 2 * K - 1
InWindowFromK(k, e) == e >= k /\ e <= 2 * k - 1
InWindow(k, e) == e >= k - 1 /\ e <= 2 * k - 1

\* the three slices of a repair are in range with start <= end
SlicesInRange(k, d0, d1) == 1 <= d0 /\ d0 <= k /\ 1 <= d1 /\ d1 <= k

\* weak_bases after a successful repair
RepairedWithClosing(k, last, middle, d0, d1, kmer) ==
    Slice(ToBases(k, last), 1, d0) \o ToBases(k, middle)
        \o Slice(ToBases(k, kmer), k - d1, k)
Repaired(k, last, middle, d0, d1, kmer) ==
    Slice(ToBases(k, last), 1, d0) \o ToBases(k, middle)
        \o Slice(ToBases(k, kmer), k - d1, k - 1)

ToNucs(bs) == [j \in 1..Len(bs) |-> ToNuc(bs[j])]

\* the locals of correct before its loop
CorStart ==
    [pos |-> 0, i |-> 0, kmer |-> KmerNew, last_solid_kmer |-> KmerNew,
     weak_bases |-> <<>>, error_size |-> 0, buffer |-> <<>>,
     stats |-> [errors |-> 0, corrections |-> 0], pc |-> "loop"]

InitCor ==
    /\ IdleButCor
    /\ K \in CorKs
    /\ nucs \in CorReads
    /\ solid \in SUBSET CorKmers(K)
    /\ cor = CorStart
    /\ lastRun = <<>>

\* the loop has one more base to take
HasBase == cor.pc = "loop" /\ SkipTo(nucs, cor.pos) < Len(nucs)
NextBase == FromNuc(nucs[SkipTo(nucs, cor.pos) + 1])[1]
NextKmer == KmerAppend(K, cor.kmer, NextBase)
Advance == [cor EXCEPT !.pos = SkipTo(nucs, cor.pos) + 1, !.i = cor.i + 1]

\* i < K - 1
CorWarmup ==
    /\ HasBase
    /\ cor.i < K - 1
    /\ cor' = [Advance EXCEPT !.kmer = KmerExtend(cor.kmer, NextBase),
                              !.buffer = Append(cor.buffer, ToNuc(NextBase))]
    /\ UNCHANGED <<K, nucs, solid, lastRun, OthersOfCor>>

\* (true, 0)
CorSolid ==
    /\ HasBase
    /\ cor.i >= K - 1
    /\ NextKmer \in solid
    /\ cor.error_size = 0
    /\ cor' = [Advance EXCEPT !.kmer = NextKmer,
                              !.buffer = Append(cor.buffer, ToNuc(NextBase)),
                              !.last_solid_kmer = NextKmer]
    /\ UNCHANGED <<K, nucs, solid, lastRun, OthersOfCor>>

\* (false, 0)
CorWeakStart ==
    /\ HasBase
    /\ cor.i >= K - 1
    /\ NextKmer \notin solid
    /\ cor.error_size = 0
    /\ cor' = [Advance EXCEPT !.kmer = NextKmer,
                              !.error_size = 1,
                              !.weak_bases = ToBases(K, NextKmer)]
    /\ UNCHANGED <<K, nucs, solid, lastRun, OthersOfCor>>

\* (false, _)
CorWeakGrow ==
    /\ HasBase
    /\ cor.i >= K - 1
    /\ NextKmer \notin solid
    /\ cor.error_size # 0
    /\ cor' = [Advance EXCEPT !.kmer = NextKmer,
                              !.error_size = cor.error_size + 1,
                              !.weak_bases = Append(cor.weak_bases, NextBase)]
    /\ UNCHANGED <<K, nucs, solid, lastRun, OthersOfCor>>

\* the end of the (true, _) arm: drain, reset, push, remember the solid k-mer
CloseRun(c, w) ==
    [c EXCEPT !.kmer = NextKmer,
              !.buffer = (c.buffer \o ToNucs(Drain(K, w))) \o <<ToNuc(NextBase)>>,
              !.weak_bases = Slice(w, 0, Min2(K - 1, Len(w))),
              !.error_size = 0,
              !.last_solid_kmer = NextKmer]

\* (true, _), the run is outside the repair window
CorCloseOutside ==
    /\ HasBase
    /\ cor.i >= K - 1
    /\ NextKmer \in solid
    /\ cor.error_size # 0
    /\ ~InWindow(K, cor.error_size)
    /\ cor' = CloseRun(Advance, cor.weak_bases)
    /\ lastRun' = [error_size |-> cor.error_size, repaired |-> FALSE,
                   dist |-> <<0, 0>>,
                   emitted |-> Len(Drain(K, cor.weak_bases))]
    /\ UNCHANGED <<K, nucs, solid, OthersOfCor>>

\* (true, _), in the window, find_path gives None
CorCloseAbandoned ==
    /\ HasBase
    /\ cor.i >= K - 1
    /\ NextKmer \in solid
    /\ cor.error_size # 0
    /\ InWindow(K, cor.error_size)
    /\ None \in FindPath(K, solid, cor.last_solid_kmer, NextKmer, cor.error_size + 1)
    /\ cor' = CloseRun([Advance EXCEPT !.stats.errors = cor.stats.errors + 1],
                       cor.weak_bases)
    /\ lastRun' = [error_size |-> cor.error_size, repaired |-> FALSE,
                   dist |-> <<0, 0>>,
                   emitted |-> Len(Drain(K, cor.weak_bases))]
    /\ UNCHANGED <<K, nucs, solid, OthersOfCor>>

\* (true, _), in the window, find_path gives Some and the slices are in range
CorCloseRepaired ==
    /\ HasBase
    /\ cor.i >= K - 1
    /\ NextKmer \in solid
    /\ cor.error_size # 0
    /\ InWindow(K, cor.error_size)
    /\ \E r \in FindPath(K, solid, cor.last_solid_kmer, NextKmer, cor.error_size + 1) :
        /\ r # None
        /\ SlicesInRange(K, r[1][2], r[1][3])
        /\ LET w == Repaired(K, cor.last_solid_kmer, r[1][1], r[1][2], r[1][3], NextKmer)
           IN  /\ cor' = CloseRun([Advance EXCEPT
                                     !.stats.errors = cor.stats.errors + 1,
                                     !.stats.corrections = cor.stats.corrections + 1],
                                  w)
               /\ lastRun' = [error_size |-> cor.error_size, repaired |-> TRUE,
                              dist |-> <<r[1][2], r[1][3]>>,
                              emitted |-> Len(Drain(K, w))]
    /\ UNCHANGED <<K, nucs, solid, OthersOfCor>>

\* (true, _), in the window, find_path gives Some and a slice range is invalid:
\* the slice expression panics after stats.errors was incremented
CorClosePanic ==
    /\ HasBase
    /\ cor.i >= K - 1
    /\ NextKmer \in solid
    /\ cor.error_size # 0
    /\ InWindow(K, cor.error_size)
    /\ \E r \in FindPath(K, solid, cor.last_solid_kmer, NextKmer, cor.error_size + 1) :
        /\ r # None
        /\ ~SlicesInRange(K, r[1][2], r[1][3])
        /\ cor' = [cor EXCEPT !.kmer = NextKmer,
                              !.stats.errors = cor.stats.errors + 1,
                              !.pc = "panic"]
    /\ UNCHANGED <<K, nucs, solid, lastRun, OthersOfCor>>

\* after the loop: if error_size > 0 { drain }
CorFinish ==
    /\ cor.pc = "loop"
    /\ SkipTo(nucs, cor.pos) = Len(nucs)
    /\ cor' = [cor EXCEPT
                 !.pos = Len(nucs),
                 !.buffer = IF cor.error_size > 0
                            THEN cor.buffer \o ToNucs(Drain(K, cor.weak_bases))
                            ELSE cor.buffer,
                 !.weak_bases = IF cor.error_size > 0
                                THEN Slice(cor.weak_bases, 0, Min2(K - 1, Len(cor.weak_bases)))
                                ELSE cor.weak_bases,
                 !.pc = "done"]
    /\ UNCHANGED <<K, nucs, solid, lastRun, OthersOfCor>>

NextCor ==
    \/ CorWarmup
    \/ CorSolid
    \/ CorWeakStart
    \/ CorWeakGrow
    \/ CorCloseOutside
    \/ CorCloseAbandoned
    \/ CorCloseRepaired
    \/ CorClosePanic
    \/ CorFinish

SpecCorrect == InitCor /\ [][NextCor]_vars

\* the read's ACGT bases in input order, as characters
InputNucs == ToNucs(FilterMapFromNuc(nucs))

\* C5: when correct returns without any successful repair, the output buffer
\* is exactly the read's ACGT bases in input order (same length), whatever
\* the oracle: short weak runs, abandoned repairs and a read ending inside
\* a weak run all leave the bases as they were.
C5_UnrepairedReadUnchanged ==
    (cor.pc = "done" /\ cor.stats.corrections = 0) => cor.buffer = InputNucs

\* a read with an abandoned repair, a run outside the window, and an open
\* weak run at its end
C5_Witness ==
    /\ cor.pc = "done"
    /\ cor.stats.corrections = 0
    /\ cor.stats.errors >= 1
    /\ lastRun # <<>>
    /\ cor.error_size > 0
    /\ "N" \notin SeqElems(nucs)
    /\ Len(nucs) > K

\* C9: a closed weak run of error_size k-mers puts at most error_size + 1
\* bases into the output, a successful repair exactly d0 + d1 - 1, and the
\* output of a read is never longer than its ACGT bases plus its corrections.
C9_OutputGrowsByAtMostOnePerRepair ==
    /\ lastRun # <<>> =>
        /\ lastRun.emitted <= lastRun.error_size + 1
        /\ lastRun.repaired => lastRun.emitted = lastRun.dist[1] + lastRun.dist[2] - 1
        /\ ~lastRun.repaired => lastRun.emitted = lastRun.error_size
    /\ cor.pc = "done" => Len(cor.buffer) <= Len(InputNucs) + cor.stats.corrections

\* a repair that lengthened the read by one base
C9_Witness ==
    /\ cor.pc = "done"
    /\ lastRun # <<>>
    /\ lastRun.repaired
    /\ lastRun.emitted = lastRun.error_size + 1
    /\ Len(cor.buffer) = Len(InputNucs) + 1

\* the solid k-mers one successor step / one predecessor step away from X
SolidSuccessors(k, S, X) == {y \in S : \E x \in X : y \in SeqElems(Successors(k, x))}
SolidPredecessors(k, S, X) == {y \in S : \E x \in X : y \in SeqElems(Predecessors(k, x))}

\* the first half-round at which the two frontiers, as sets, share a k-mer
RECURSIVE FirstMeeting(_, _, _, _, _, _)
FirstMeetingBackward(k, S, F1, B1, i, half) ==
    IF F1 \cap B1 # {} THEN [meet |-> F1 \cap B1, dist |-> <<i + 1, i + 1>>]
    ELSE FirstMeeting(k, S, F1, B1, i + 1, half)
FirstMeetingForward(k, S, F1, B, i, half) ==
    IF F1 \cap B # {} THEN [meet |-> F1 \cap B, dist |-> <<i + 1, i>>]
    ELSE FirstMeetingBackward(k, S, F1, SolidPredecessors(k, S, B), i, half)
FirstMeeting(k, S, F, B, i, half) ==
    IF i >= half THEN [meet |-> {}, dist |-> <<0, 0>>]
    ELSE FirstMeetingForward(k, S, SolidSuccessors(k, S, F), B, i, half)

\* Some(M, d_forward, d_backward) when that first meeting is the single k-mer M
UniqueMeetingOf(r) ==
    IF Cardinality(r.meet) = 1
    THEN Some(<<CHOOSE m \in r.meet : TRUE, r.dist[1], r.dist[2]>>)
    ELSE None
UniqueMeeting(k, S, source, target, max_dist) ==
    UniqueMeetingOf(FirstMeeting(k, S, {source}, {target}, 0, HalfMaxDist(max_dist)))

\* ---- find_path on its own, for the arguments correct can pass ----
MaxGenomeLen == 7
FindPathBases == {0, 1, 2}

\* the k-mer spelled by bs[j + 1 .. j + k]
RECURSIVE KmerAt(_, _, _)
KmerAt(k, bs, j) == IF k = 0 THEN KmerNew ELSE KmerExtend(KmerAt(k - 1, bs, j), bs[j + k])
\* the k-mers of a sequence of bases
KmersIn(k, bs) == {KmerAt(k, bs, j) : j \in 0..(Len(bs) - k)}

\* the oracle holds the k-mers of a genome; max_dist is error_size + 1 with
\* error_size in the repair window, the target is solid, the source is solid
\* or the zero k-mer of a read that starts weak
InitFindPath ==
    /\ IdleButCor
    /\ K \in CorKs
    /\ nucs = <<>>
    /\ \E n \in K..MaxGenomeLen : \E g \in [1..n -> FindPathBases] : solid = KmersIn(K, g)
    /\ \E source \in solid \cup {KmerNew}, target \in solid, max_dist \in K..(2 * K) :
          cor = [pc |-> "call", source |-> source, target |-> target,
                 max_dist |-> max_dist, result |-> None]
    /\ lastRun = <<>>

\* find_path returns
CallFindPath ==
    /\ cor.pc = "call"
    /\ \E r \in FindPath(K, solid, cor.source, cor.target, cor.max_dist) :
          cor' = [cor EXCEPT !.pc = "returned", !.result = r]
    /\ UNCHANGED <<K, nucs, solid, lastRun, OthersOfCor>>

SpecFindPath == InitFindPath /\ [][CallFindPath]_vars

\* correct is about to call find_path: a solid k-mer closes a weak run whose
\* length is in the repair window
ClosingInWindow ==
    /\ HasBase
    /\ cor.i >= K - 1
    /\ NextKmer \in solid
    /\ cor.error_size # 0
    /\ InWindow(K, cor.error_size)

\* C21: find_path(source, target, D, solid) returns Some(M, d_forward,
\* d_backward) exactly when, at the first half-round at which the solid
\* k-mers reached from source and those reaching target intersect, the
\* intersection is the single k-mer M; it returns None when the frontiers share
\* two or more k-mers or never meet within the budget.
C21_FindPathIffUniqueMeeting ==
    cor.pc = "returned" =>
        cor.result = UniqueMeeting(K, solid, cor.source, cor.target, cor.max_dist)

\* a solid k-mer closes a weak run: the (true, _) arm of correct
ClosingRun == HasBase /\ cor.i >= K - 1 /\ NextKmer \in solid /\ cor.error_size # 0

\* C23: when a solid k-mer closes a weak run of error_size k-mers, find_path
\* is invoked (stats.errors is counted on that branch only) if and only if
\* K - 1 <= error_size <= 2K - 1; for a shorter or longer run nothing is
\* counted, the bases of the run and the closing base are emitted as they
\* were read, and the loop goes on with error_size = 0.
C23_RepairAttemptedIffInWindow ==
    [][ClosingRun =>
        /\ (cor'.stats.errors = cor.stats.errors + 1)
              <=> (K - 1 <= cor.error_size /\ cor.error_size <= 2 * K - 1)
        /\ ~(K - 1 <= cor.error_size /\ cor.error_size <= 2 * K - 1) =>
              /\ cor'.stats = cor.stats
              /\ cor'.pc = "loop"
              /\ cor'.error_size = 0
              /\ cor'.last_solid_kmer = NextKmer
              /\ cor'.buffer = cor.buffer
                     \o Slice(InputNucs, cor.i - cor.error_size, cor.i + 1)]_vars

\* a read was corrected whose last weak run was longer than the window and
\* nothing was counted
C23_Witness ==
    /\ lastRun # <<>>
    /\ ~lastRun.repaired
    /\ lastRun.error_size > 2 * K - 1
    /\ cor.stats.errors = 0
    /\ cor.error_size = 0
    /\ cor.pc = "done"

\* the maximal runs of consecutive non-solid k-mers of a sequence of bases:
\* the k-mers that are weak while the k-mer before them, if any, is solid
WeakRunStarts(k, S, bs) ==
    {j \in 0..(Len(bs) - k) :
        /\ KmerAt(k, bs, j) \notin S
        /\ j > 0 => KmerAt(k, bs, j - 1) \in S}

\* C24: when correct returns, stats.errors is the number of maximal runs of
\* consecutive non-solid k-mers of the read, whatever their lengths and
\* whether or not the read ends inside one
C24_ErrorsCountWeakRuns ==
    cor.pc = "done" =>
        cor.stats.errors = Cardinality(WeakRunStarts(K, solid, FilterMapFromNuc(nucs)))

\* C30: every Some((middle, d0, d1)) that find_path gives to correct has
\* 1 <= d0 <= K and 1 <= d1 <= K, so the slices to_bases()[1..d0] and
\* to_bases()[(K - d1)..(K - 1)] are in range with start <= end and correct
\* never aborts on a slice, for any read and any oracle
C30_RepairSlicesInRange ==
    /\ cor.pc # "panic"
    /\ ClosingInWindow =>
          \A r \in FindPath(K, solid, cor.last_solid_kmer, NextKmer, cor.error_size + 1) :
              r # None => /\ 1 <= r[1][2] /\ r[1][2] <= K
                          /\ 1 <= r[1][3] /\ r[1][3] <= K

\* this step of correct is a successful repair
RepairStep == ClosingInWindow /\ cor'.stats.corrections = cor.stats.corrections + 1

\* the last K + n bases of the output buffer
BufferTail(buf, n) ==
    Slice(FilterMapFromNuc(buf), Len(buf) - (K + n), Len(buf))

\* the stretch t starts with last_solid_kmer, has the middle k-mer of a
\* find_path result after d0 edges and the closing k-mer after d0 + d1 edges,
\* and all its k-mers are solid
SpellsSolidPath(t, d0, d1) ==
    /\ KmerAt(K, t, 0) = cor.last_solid_kmer
    /\ KmerAt(K, t, d0 + d1) = NextKmer
    /\ Some(<<KmerAt(K, t, d0), d0, d1>>)
          \in FindPath(K, solid, cor.last_solid_kmer, NextKmer, cor.error_size + 1)
    /\ \A j \in 0..(d0 + d1) : KmerAt(K, t, j) \in solid

\* C29: after a successful repair the output from last_solid_kmer through
\* the closing k-mer spells a path last_solid -> ... -> middle -> ... ->
\* current of d_forward + d_backward edges in the successor graph, and every
\* k-mer of that stretch is solid
C29_RepairSpellsSolidPath ==
    [][RepairStep =>
        /\ Len(cor'.buffer) >= K + lastRun'.dist[1] + lastRun'.dist[2]
        /\ SpellsSolidPath(BufferTail(cor'.buffer, lastRun'.dist[1] + lastRun'.dist[2]),
                           lastRun'.dist[1], lastRun'.dist[2])]_vars

\* the weak run follows a solid k-mer of the read
RunAfterSolid == cor.i - cor.error_size >= K

\* the same for the repairs of a weak run that follows a solid k-mer of the
\* read: this holds, the exception is the run at the start of a read, where
\* last_solid_kmer is still Kmer::new()
RepairAfterSolidSpellsSolidPath ==
    [][(RepairStep /\ RunAfterSolid) =>
        /\ Len(cor'.buffer) >= K + lastRun'.dist[1] + lastRun'.dist[2]
        /\ SpellsSolidPath(BufferTail(cor'.buffer, lastRun'.dist[1] + lastRun'.dist[2]),
                           lastRun'.dist[1], lastRun'.dist[2])]_vars

\* find_path has returned Some((middle, d0, d1))
FoundPath == cor.pc = "returned" /\ cor.result # None

\* C22: a path that find_path reports has at most max_dist = error_size + 1
\* edges in total, d_forward + d_backward <= max_dist, for odd and even max_dist
C22_PathWithinBudget ==
    FoundPath => cor.result[1][2] + cor.result[1][3] <= cor.max_dist

(***************************************************************************)
(*            THE DRIVER: INDEXING PASS AND CORRECTION PASS (main.rs)      *)
(*                                                                         *)
(* The two counters have FilterSize cells instead of 100 000 000 for the   *)
(* inputs of short reads (K = 3), LongFilterSize for those of long reads   *)
(* (K = 5).                                                                *)
(***************************************************************************)
FilterSize == 63       \* size of each counter (100_000_000 in the code)
LongFilterSize == 4095 \* the same, for reads of 30 bases
N_HASHES == 3          \* n_hashes of each counter
MaxAbundance == 3      \* the abundance argument is 1..MaxAbundance
MaxIndexReadLen == 4   \* longest read of the concurrent indexing pass

\* let min_threshold = args.abundance - (args.abundance / 2)
MinThreshold(abundance) == abundance - (abundance \div 2)
\* let kmer_threshold = args.abundance - (args.abundance / 2)
KmerThreshold(abundance) == abundance - (abundance \div 2)

Thresholds(abundance) ==
    [abundance |-> abundance,
     min_threshold |-> MinThreshold(abundance),
     kmer_threshold |-> KmerThreshold(abundance)]

\* ---- the thresholds for every value of the abundance argument ----
\* main reads args.abundance (u8) and computes the two thresholds
ComputeThresholds ==
    /\ phase = "none"
    /\ \E abundance \in 0..U8_MAX : thr' = Thresholds(abundance)
    /\ phase' = "args"
    /\ UNCHANGED <<corVars, M, input, nextRead, min_counts, kmer_counts, idxw,
                   global_stats, output, OthersOfPipe>>

InitArgs == IdleButPipe /\ PipeIdle /\ CorIdle

SpecArgs == InitArgs /\ [][ComputeThresholds]_vars

\* C20: for every abundance A in 0..255 the driver computes
\* min_threshold = floor((A + 1) / 2) and kmer_threshold = A + 1 -
\* min_threshold, so that the two add up to A + 1, and both are u8 values.
C20_ThresholdsSumToAbundancePlusOne ==
    phase = "args" =>
        /\ thr.min_threshold = (thr.abundance + 1) \div 2
        /\ thr.kmer_threshold = thr.abundance + 1 - thr.min_threshold
        /\ thr.min_threshold + thr.kmer_threshold = thr.abundance + 1
        /\ thr.min_threshold \in 0..U8_MAX
        /\ thr.kmer_threshold \in 0..U8_MAX

\* CountingBloomFilter::new_with_shard_amount: the seed is size + n_hashes
NewWithShardAmount(size, n_hashes, shard_amount) ==
    LET f == NewWithSeedAndShardAmount(size, n_hashes, size + n_hashes, shard_amount)
    IN  [f |-> f, sh |-> NewShards(f)]

\* let shard_amount = threads * 4
ShardAmount(threads) == threads * 4

\* the locals of the indexing callback before its loop
IdxIdle == [pc |-> "idle"]
IdxStart(ns) ==
    [pc |-> "loop", nucs |-> ns, pos |-> 0, i |-> 0, kmer |-> KmerNew,
     mmer |-> KmerNew, queue |-> QueueNew(K, M), prev_min |-> KmerNew,
     min_is_solid |-> FALSE]

\* min_counts.add_and_count(min) > min_threshold
MinIsSolidStrict(count, threshold) == count > threshold
\* min_counts.add_and_count(min) >= min_threshold
MinIsSolid(count, threshold) == count >= threshold

\* the same iteration with add_and_count on every k-mer
BaseStepAlwaysCounts(w, mc) ==
    LET p == SkipTo(w.nucs, w.pos)
        base == FromNuc(w.nucs[p + 1])[1]
        mmer == IF w.i < M - 1 THEN KmerExtend(w.mmer, base)
                ELSE KmerAppend(M, w.mmer, base)
        q == IF w.i < M - 1 THEN w.queue ELSE QueueInsert(w.queue, mmer)
        kmer == IF w.i < K - 1 THEN KmerExtend(w.kmer, base)
                ELSE KmerAppend(K, w.kmer, base)
        w1 == [w EXCEPT !.pos = p + 1, !.i = w.i + 1, !.mmer = mmer,
                        !.queue = q, !.kmer = kmer]
    IN  IF w.i < K - 1 THEN [w |-> w1, mc |-> mc]
        ELSE LET min == GetMin(q)
             IN  IF FALSE
                 THEN [w |-> [w1 EXCEPT !.pc = IF w.min_is_solid THEN "add" ELSE "loop"],
                       mc |-> mc]
                 ELSE LET r == AddAndCount(mc.f, mc.sh, min)
                          is_solid == MinIsSolid(r.count, thr.min_threshold)
                      IN  [w |-> [w1 EXCEPT !.min_is_solid = is_solid,
                                            !.prev_min = min,
                                            !.pc = IF is_solid THEN "add" ELSE "loop"],
                           mc |-> [mc EXCEPT !.sh = r.shards]]

\* one iteration of the indexing loop up to and including its access to
\* min_counts; pc becomes "add" when kmer_counts.add is to follow
BaseStep(w, mc) ==
    LET p == SkipTo(w.nucs, w.pos)
        base == FromNuc(w.nucs[p + 1])[1]
        mmer == IF w.i < M - 1 THEN KmerExtend(w.mmer, base)
                ELSE KmerAppend(M, w.mmer, base)
        q == IF w.i < M - 1 THEN w.queue ELSE QueueInsert(w.queue, mmer)
        kmer == IF w.i < K - 1 THEN KmerExtend(w.kmer, base)
                ELSE KmerAppend(K, w.kmer, base)
        w1 == [w EXCEPT !.pos = p + 1, !.i = w.i + 1, !.mmer = mmer,
                        !.queue = q, !.kmer = kmer]
    IN  IF w.i < K - 1 THEN [w |-> w1, mc |-> mc]
        ELSE LET min == GetMin(q)
             IN  IF min = w.prev_min
                 THEN [w |-> [w1 EXCEPT !.pc = IF w.min_is_solid THEN "add" ELSE "loop"],
                       mc |-> mc]
                 ELSE LET r == AddAndCount(mc.f, mc.sh, min)
                          is_solid == MinIsSolid(r.count, thr.min_threshold)
                      IN  [w |-> [w1 EXCEPT !.min_is_solid = is_solid,
                                            !.prev_min = min,
                                            !.pc = IF is_solid THEN "add" ELSE "loop"],
                           mc |-> [mc EXCEPT !.sh = r.shards]]

\* kmer_counts.add(kmer.canonical())
AddStep(w, kc) ==
    [w |-> [w EXCEPT !.pc = "loop"],
     kc |-> [kc EXCEPT !.sh = Add(kc.f, kc.sh, Canonical(K, w.kmer))]]

IdxHasBase(w) == w.pc = "loop" /\ SkipTo(w.nucs, w.pos) < Len(w.nucs)
IdxAtEnd(w) == w.pc = "loop" /\ SkipTo(w.nucs, w.pos) = Len(w.nucs)

\* a worker takes the next read of the file and enters the callback
IndexTake(t) ==
    /\ phase = "index"
    /\ idxw[t].pc = "idle"
    /\ nextRead <= Len(input)
    /\ idxw' = [idxw EXCEPT ![t] = IdxStart(input[nextRead])]
    /\ nextRead' = nextRead + 1
    /\ UNCHANGED <<M, thr, input, min_counts, kmer_counts, phase, global_stats,
                   output, corVars, OthersOfPipe>>

IndexBase(t) ==
    /\ phase = "index"
    /\ IdxHasBase(idxw[t])
    /\ LET r == BaseStep(idxw[t], min_counts)
       IN  /\ idxw' = [idxw EXCEPT ![t] = r.w]
           /\ min_counts' = r.mc
    /\ UNCHANGED <<M, thr, input, nextRead, kmer_counts, phase, global_stats,
                   output, corVars, OthersOfPipe>>

IndexAdd(t) ==
    /\ phase = "index"
    /\ idxw[t].pc = "add"
    /\ LET r == AddStep(idxw[t], kmer_counts)
       IN  /\ idxw' = [idxw EXCEPT ![t] = r.w]
           /\ kmer_counts' = r.kc
    /\ UNCHANGED <<M, thr, input, nextRead, min_counts, phase, global_stats,
                   output, corVars, OthersOfPipe>>

\* the callback returns
IndexEnd(t) ==
    /\ phase = "index"
    /\ IdxAtEnd(idxw[t])
    /\ idxw' = [idxw EXCEPT ![t] = IdxIdle]
    /\ UNCHANGED <<M, thr, input, nextRead, min_counts, kmer_counts, phase,
                   global_stats, output, corVars, OthersOfPipe>>

\* parallel_process has returned: every read was processed
IndexDone ==
    /\ phase = "index"
    /\ nextRead > Len(input)
    /\ \A t \in DOMAIN idxw : idxw[t].pc = "idle"

\* the state of the driver before the indexing pass
InitDriver(k, m, abundance, threads, size, reads) ==
    /\ K = k
    /\ M = m
    /\ thr = Thresholds(abundance)
    /\ input = reads
    /\ nextRead = 1
    /\ min_counts = NewWithShardAmount(size, N_HASHES, ShardAmount(threads))
    /\ kmer_counts = NewWithShardAmount(size, N_HASHES, ShardAmount(threads))
    /\ idxw = [t \in 1..threads |-> IdxIdle]
    /\ phase = "index"
    /\ global_stats = [errors |-> 0, corrections |-> 0]
    /\ output = <<>>
    /\ nucs = <<>>
    /\ solid = {}
    /\ cor = CorNone
    /\ lastRun = <<>>

\* ---- the indexing pass with two workers ----
IndexNucs == {"C", "G"}
IndexReads == UNION {[1..l -> IndexNucs] : l \in 3..MaxIndexReadLen}

\* a number for each read of IndexReads, different for different reads
RECURSIVE ReadRank(_)
ReadRank(r) ==
    IF r = <<>> THEN 0
    ELSE 3 * ReadRank(SubSeq(r, 1, Len(r) - 1)) + (IF r[Len(r)] = "C" THEN 1 ELSE 2)

InitIndex ==
    /\ IdleButPipe
    \* abundance 1 gives the same two thresholds as abundance 2 (both are 1);
    \* a pair of reads is drawn in one file order only: the callback does not see
    \* a read's position, and either worker may finish its read before the other
    \* worker's first step
    /\ \E abundance \in 2..MaxAbundance, r1 \in IndexReads, r2 \in IndexReads :
          /\ ReadRank(r1) <= ReadRank(r2)
          /\ InitDriver(3, 1, abundance, 2, FilterSize, <<r1, r2>>)

NextIndex ==
    \E t \in DOMAIN idxw :
        \/ IndexTake(t)
        \/ IndexBase(t)
        \/ IndexAdd(t)
        \/ IndexEnd(t)

SpecIndex == InitIndex /\ [][NextIndex]_vars

\* the indexing callback run to its end on one read, alone
RECURSIVE RunRead(_, _, _)
RunRead(w, mc, kc) ==
    IF w.pc = "add" THEN LET r == AddStep(w, kc) IN RunRead(r.w, mc, r.kc)
    ELSE IF IdxHasBase(w) THEN LET r == BaseStep(w, mc) IN RunRead(r.w, r.mc, kc)
    ELSE [mc |-> mc, kc |-> kc]

\* the reads from the j-th on processed one after the other in file order
RECURSIVE RunReads(_, _, _, _)
RunReads(reads, j, mc, kc) ==
    IF j > Len(reads) THEN [mc |-> mc, kc |-> kc]
    ELSE LET r == RunRead(IdxStart(reads[j]), mc, kc)
         IN  RunReads(reads, j + 1, r.mc, r.kc)

\* the counters a single worker leaves
Sequential ==
    RunReads(input, 1,
             [min_counts EXCEPT !.sh = NewShards(min_counts.f)],
             [kmer_counts EXCEPT !.sh = NewShards(kmer_counts.f)])

MaxPipeReadLen == 10   \* longest read of a one-read input
MaxPairReadLen == 4    \* longest read of a two-read input

\* let solid_kmer = |kmer| kmer_counts.count(kmer.canonical()) >= kmer_threshold
SolidKmer(x) ==
    Count(kmer_counts.f, kmer_counts.sh, Canonical(K, x)) >= thr.kmer_threshold
\* the k-mers the oracle reports solid
SolidKmers == {x \in 0..(4 ^ K - 1) : SolidKmer(x)}

\* a read with its base at position p (from 0) replaced by character c
SubstitutedAt(r, p, c) == [r EXCEPT ![p + 1] = c]

\* reads of length 30 with an 'A' at position 15
LongReads ==
    {<<"C","A","G","T","T","C","G","A","T","A","C","C","G","T","G",
       "A","G","G","C","T","A","T","C","G","C","A","C","T","T","G">>,
     <<"G","T","C","C","A","T","G","C","G","A","T","T","C","A","G",
       "A","C","T","G","G","T","C","A","C","G","T","A","T","G","C">>}

PipeReads ==
    SeqsUpTo(CorNucs, MaxPipeReadLen) \cup
    UNION {{Slice(r, 0, p) \o <<"N">> \o Slice(r, p, Len(r)) : p \in 0..Len(r)} :
              r \in SeqsUpTo(CorNucs, MaxGapReadLen)}
PairReads == UNION {[1..l -> CorNucs] : l \in 3..MaxPairReadLen}

\* the reads of a two-read input indexed by two workers
TwoWorkerReads == [1..3 -> CorNucs]

InitPipe ==
    /\ IdleButPipe
    /\ \/ \E abundance \in 1..MaxAbundance, r \in PipeReads :
             InitDriver(3, 1, abundance, 1, FilterSize, <<r>>)
       \/ \E abundance \in 1..MaxAbundance, r1 \in PairReads, r2 \in PairReads :
             InitDriver(3, 1, abundance, 1, FilterSize, <<r1, r2>>)
       \/ \E r \in LongReads :
             InitDriver(5, 3, 2, 1, LongFilterSize, <<r, SubstitutedAt(r, 15, "T")>>)
       \/ \E r1 \in TwoWorkerReads, r2 \in TwoWorkerReads :
             InitDriver(3, 1, 1, 2, FilterSize, <<r1, r2>>)

\* the second pass opened as soon as the file is read to its end
StartCorrectionAtEndOfFile ==
    /\ phase = "index"
    /\ nextRead > Len(input)
    /\ phase' = "correct"
    /\ nextRead' = 1
    /\ solid' = SolidKmers
    /\ UNCHANGED <<K, nucs, cor, lastRun, M, thr, input, min_counts, kmer_counts,
                   idxw, global_stats, output, OthersOfPipe>>

\* parallel_process has returned; the second pass opens the file again
StartCorrection ==
    /\ IndexDone
    /\ phase' = "correct"
    /\ nextRead' = 1
    /\ solid' = SolidKmers
    /\ UNCHANGED <<K, nucs, cor, lastRun, M, thr, input, min_counts, kmer_counts,
                   idxw, global_stats, output, OthersOfPipe>>

\* the next read is handed to correct
CorrectTake ==
    /\ phase = "correct"
    /\ cor = CorNone
    /\ nextRead <= Len(input)
    /\ nucs' = input[nextRead]
    /\ cor' = CorStart
    /\ lastRun' = <<>>
    /\ nextRead' = nextRead + 1
    /\ UNCHANGED <<K, solid, M, thr, input, min_counts, kmer_counts, idxw, phase,
                   global_stats, output, OthersOfPipe>>

\* the sink: the buffer is written out and the statistics are added up
HandleResult ==
    /\ phase = "correct"
    /\ cor.pc = "done"
    /\ output' = Append(output, cor.buffer)
    /\ global_stats' = [errors |-> global_stats.errors + cor.stats.errors,
                        corrections |-> global_stats.corrections + cor.stats.corrections]
    /\ cor' = CorNone
    /\ UNCHANGED <<K, nucs, solid, lastRun, M, thr, input, nextRead, min_counts,
                   kmer_counts, idxw, phase, OthersOfPipe>>

\* every read went through the sink
Finish ==
    /\ phase = "correct"
    /\ cor = CorNone
    /\ nextRead > Len(input)
    /\ phase' = "done"
    /\ UNCHANGED <<corVars, M, thr, input, nextRead, min_counts, kmer_counts, idxw,
                   global_stats, output, OthersOfPipe>>

NextPipe ==
    \/ \E t \in DOMAIN idxw :
          IndexTake(t) \/ IndexBase(t) \/ IndexAdd(t) \/ IndexEnd(t)
    \/ StartCorrection
    \/ CorrectTake
    \/ CorWarmup
    \/ CorSolid
    \/ CorWeakStart
    \/ CorWeakGrow
    \/ CorCloseOutside
    \/ CorCloseAbandoned
    \/ CorCloseRepaired
    \/ CorClosePanic
    \/ CorFinish
    \/ HandleResult
    \/ Finish

SpecPipe == InitPipe /\ [][NextPipe]_vars

\* every character of the read is one of ACGT
AcgtOnly(r) == \A j \in 1..Len(r) : FromNuc(r[j]) # None

\* the k-mer spelled by k bases
RECURSIVE PackBases(_)
PackBases(bs) ==
    IF bs = <<>> THEN 0
    ELSE PackBases(SubSeq(bs, 1, Len(bs) - 1)) * 4 + bs[Len(bs)]

\* the k-mers of a read over ACGT
ReadKmers(r) ==
    LET bs == FilterMapFromNuc(r)
    IN  {PackBases(Slice(bs, j, j + K)) : j \in 0..(Len(bs) - K)}

\* the number of consecutive ACGT characters that end at position p
RECURSIVE RunBefore(_, _)
RunBefore(ns, p) ==
    IF p = 0 \/ FromNuc(ns[p]) = None THEN 0 ELSE 1 + RunBefore(ns, p - 1)

\* C6: with abundance 1 and a single read over ACGT of length >= K, after
\* the indexing pass every k-mer of the read is solid, and the correction
\* pass outputs the read unchanged with errors = 0 and corrections = 0,
\* whatever the read's first minimizer is.
C6_SingleReadAllSolid ==
    (/\ phase = "done"
     /\ thr.abundance = 1
     /\ Len(input) = 1
     /\ AcgtOnly(input[1])
     /\ Len(input[1]) >= K)
    => /\ \A x \in ReadKmers(input[1]) : SolidKmer(x)
       /\ output = <<input[1]>>
       /\ global_stats = [errors |-> 0, corrections |-> 0]

\* C7: K = 5, M = 3, abundance 2, one worker, two reads of length 30 that
\* differ by one substitution at position 15 of the second: the correction
\* pass reports one error and one correction, and the second read comes out
\* with the original base restored.
C7_OneSubstitutionRepaired ==
    (/\ phase = "done"
     /\ K = 5 /\ M = 3
     /\ thr.abundance = 2
     /\ Len(input) = 2
     /\ Len(input[1]) = 30
     /\ input[2] # input[1]
     /\ input[2] = SubstitutedAt(input[1], 15, input[2][16]))
    => /\ global_stats = [errors |-> 1, corrections |-> 1]
       /\ output = <<input[1], input[1]>>

\* C8: a non-ACGT character resets the k-mer stream: a k-mer that the
\* indexing pass counts, or that correct queries for solidity, is made of
\* K bases with no non-ACGT character between them.
C8_NoKmerAcrossNonAcgt ==
    /\ \A t \in DOMAIN idxw :
          idxw[t].pc = "add" => RunBefore(idxw[t].nucs, idxw[t].pos) >= K
    /\ (cor.pc = "loop" /\ cor.i >= K) => RunBefore(nucs, cor.pos) >= K

\* no worker of the indexing pass is inside its callback
IndexWorkersIdle == \A t \in DOMAIN idxw : idxw[t].pc = "idle"

\* C15: the two passes are strictly ordered: once the correction pass has
\* started every worker of the indexing pass has left its callback (all
\* counter updates are complete), no step of the correction pass changes a
\* cell of min_counts or kmer_counts, and the solid_kmer oracle answers for
\* every k-mer what it answered when the correction pass started.
C15_PhasesOrderedOracleFrozen ==
    /\ [](phase # "index" => IndexWorkersIdle)
    /\ [][phase' # "index" =>
            /\ min_counts' = min_counts
            /\ kmer_counts' = kmer_counts
            /\ thr' = thr
            /\ solid' = (IF phase = "index" THEN SolidKmers ELSE solid)]_vars

\* two workers indexed two reads, k-mers became solid, and the correction
\* pass queried the oracle and wrote both reads
C15_Witness ==
    /\ phase = "done"
    /\ Len(idxw) = 2
    /\ Len(output) = 2
    /\ solid # {}
    /\ solid = SolidKmers
    /\ kmer_counts.sh # NewShards(kmer_counts.f)

\* worker t takes a base that completes a k-mer
KmerStep(t) ==
    /\ t \in DOMAIN idxw
    /\ phase = "index" /\ phase' = "index"
    /\ idxw[t].pc = "loop" /\ idxw'[t].pc # "idle"
    /\ idxw'[t].i = idxw[t].i + 1
    /\ idxw[t].i >= K - 1

\* the run of k-mers that share the current minimizer is solid: decided by the
\* value of add_and_count when the minimizer changed, kept while it is the same
RunIsSolid(w, min) ==
    IF min # w.prev_min
    THEN AddAndCount(min_counts.f, min_counts.sh, min).count >= thr.min_threshold
    ELSE w.min_is_solid

\* the step of worker t that completes a k-mer with queue minimum min
CountsOncePerRun(t, min) ==
    /\ min # idxw[t].prev_min =>
          /\ min_counts'.sh = Add(min_counts.f, min_counts.sh, min)
          /\ min_counts'.sh # min_counts.sh
    /\ min = idxw[t].prev_min => min_counts' = min_counts
    /\ idxw'[t].prev_min = min
    /\ idxw'[t].min_is_solid = RunIsSolid(idxw[t], min)
    /\ idxw'[t].pc = "add" <=> RunIsSolid(idxw[t], min)
    /\ kmer_counts' = kmer_counts

\* C25: while a read is indexed, min_counts.add_and_count(min) is called
\* exactly on the k-mers whose queue minimum differs from prev_min and
\* min_counts is untouched while the minimum is unchanged, and
\* kmer_counts.add(kmer.canonical()) follows a k-mer if and only if the
\* add_and_count at the start of the current minimizer run returned at least
\* min_threshold; kmer_counts changes by that add only.
C25_MinimizerCountedOncePerRun ==
    [][/\ \A t \in DOMAIN idxw :
            KmerStep(t) => CountsOncePerRun(t, GetMin(idxw'[t].queue))
       /\ \A t \in DOMAIN idxw :
            (idxw[t].pc = "add" /\ idxw'[t] # idxw[t]) =>
                /\ kmer_counts'.sh = Add(kmer_counts.f, kmer_counts.sh,
                                         Canonical(K, idxw[t].kmer))
                /\ min_counts' = min_counts
       /\ (\A t \in DOMAIN idxw : idxw[t].pc # "add") /\ phase = "index"
             => kmer_counts' = kmer_counts]_vars

\* a read was indexed whose minimizer stayed the same over two k-mers of a
\* solid run: the second k-mer is about to be added without a second count
C25_Witness ==
    /\ phase = "index"
    /\ \E t \in DOMAIN idxw :
          /\ idxw[t].pc = "add"
          /\ idxw[t].i >= K + 1
          /\ idxw[t].min_is_solid
          /\ Count(min_counts.f, min_counts.sh, idxw[t].prev_min) = 1
          /\ Count(kmer_counts.f, kmer_counts.sh, Canonical(K, idxw[t].kmer)) >= 1

\* C31: the first k-mer of every read makes the indexing callback call
\* min_counts.add_and_count on its minimizer, whatever the minimizer is: the
\* initial prev_min, the zero m-mer, is not taken for a minimizer already
\* seen, and a read whose first minimizer is the all-A m-mer is counted.
C31_FirstKmerAlwaysCounted ==
    [][\A t \in DOMAIN idxw :
          (KmerStep(t) /\ idxw[t].i = K - 1) =>
              /\ min_counts'.sh = Add(min_counts.f, min_counts.sh,
                                      GetMin(idxw'[t].queue))
              /\ min_counts'.sh # min_counts.sh]_vars

(***************************************************************************)
(*        THE DRIVER'S CORRECTION CALLBACK (main.rs) AND ITS EDITS         *)
(***************************************************************************)
\* Kmer::iter_from_bases: the k-mers of a stream of bases, the first one ending
\* at position k - 1, then one per base
IterFromBases(k, bs) ==
    [j \in 1..Max2(0, Len(bs) - k + 1) |-> PackBases(Slice(bs, j - 1, j - 1 + k))]

\* Kmer::iter_from_nucs: the same over the characters that from_nuc accepts
IterFromNucs(k, ns) == IterFromBases(k, FilterMapFromNuc(ns))

\* next() of whichever adapter m is
MutNext(s, m) ==
    IF m.kind = "insertion" THEN InsertionNext(s, m)
    ELSE IF m.kind = "deletion" THEN DeletionNext(s, m)
    ELSE SubstitutionNext(s, m)

\* the items adapter m yields over source s after those in acc, up to n more,
\* and whether next() has returned None within them
RECURSIVE MutTake(_, _, _, _)
\* r is what next() has just returned
MutTaken(s, r, n, acc) ==
    IF r.item = None THEN [items |-> acc, ended |-> TRUE]
    ELSE MutTake(s, r.m, n - 1, acc \o r.item)
MutTake(s, m, n, acc) ==
    IF n = 0 THEN [items |-> acc, ended |-> FALSE]
    ELSE MutTaken(s, MutNext(s, m), n, acc)

\* Iterator::all(solid) over the k-mers of the items taken (r): false at the
\* first k-mer that is not solid, true when the stream has ended; over a
\* stream that never ends and whose k-mers are all solid it never returns
AllSolid(k, sol, r) ==
    IF \E j \in 1..(Len(r.items) - k + 1) : IterFromBases(k, r.items)[j] \notin sol
    THEN "false"
    ELSE IF r.ended THEN "true"
    ELSE "hang"

\* validate: iter_from_bases(bases).all(solid).  A stream that has not ended
\* after Len(s) + k items only repeats its element, so its later k-mers all
\* equal the last one taken.
Validate(k, sol, s, m) == AllSolid(k, sol, MutTake(s, m, Len(s) + k + 1, <<>>))

\* Vec::remove, Vec::insert, assignment to an index (indices from 0)
VecRemove(v, i) == Slice(v, 0, i) \o Slice(v, i + 1, Len(v))
VecInsert(v, i, x) == Slice(v, 0, i) \o <<x>> \o Slice(v, i, Len(v))
VecSet(v, i, x) == [v EXCEPT ![i + 1] = x]

\* weak_bases[..stop]
WeakBasesSlice(weak_bases, stop) == Slice(weak_bases, 0, Min2(stop, Len(weak_bases)))

\* if validate(..) { weak_bases.remove(K - 1); return true; } return false;
DeletionApplied(k, valid, weak_bases) ==
    IF valid = "true"
    THEN [ok |-> "true", weak_bases |-> VecRemove(weak_bases, k - 1)]
    ELSE [ok |-> valid, weak_bases |-> weak_bases]

\* try_deletion
TryDeletion(k, sol, weak_bases, validation_threshold) ==
    DeletionApplied(
        k,
        Validate(k, sol,
                 WeakBasesSlice(weak_bases, k - 1 + validation_threshold + 1),
                 Deletion(k - 1)),
        weak_bases)

\* for base in KT::bases() { if validate(...) { ... } }: the loop of
\* try_insertion and try_substitution over the bases still to try
RECURSIVE TryEach(_, _, _, _, _, _)
\* the body of the loop once validate has answered (valid) for Head(bs)
TryEachBody(valid, k, sol, s, kind, bs, good) ==
    IF valid = "hang" THEN [pc |-> "hang", good |-> good]
    ELSE IF valid = "false" THEN TryEach(k, sol, s, kind, Tail(bs), good)
    ELSE IF good = None THEN TryEach(k, sol, s, kind, Tail(bs), Some(Head(bs)))
    ELSE [pc |-> "return", good |-> None]
TryEach(k, sol, s, kind, bs, good) ==
    IF bs = <<>> THEN [pc |-> "end", good |-> good]
    ELSE TryEachBody(
            Validate(k, sol, s,
                     IF kind = "insertion" THEN Insertion(k - 1, Head(bs))
                     ELSE Substitution(k - 1, Head(bs))),
            k, sol, s, kind, bs, good)

\* KT::bases()
AllBases == <<0, 1, 2, 3>>

\* if let Some(base) = good_insertion { weak_bases.insert(K - 1, base); .. }
InsertionApplied(k, r, weak_bases) ==
    IF r.pc = "hang" THEN [ok |-> "hang", weak_bases |-> weak_bases]
    ELSE IF r.good # None
         THEN [ok |-> "true", weak_bases |-> VecInsert(weak_bases, k - 1, r.good[1])]
    ELSE [ok |-> "false", weak_bases |-> weak_bases]

\* try_insertion
TryInsertion(k, sol, weak_bases, validation_threshold) ==
    InsertionApplied(
        k,
        TryEach(k, sol, WeakBasesSlice(weak_bases, k - 1 + validation_threshold - 1),
                "insertion", AllBases, None),
        weak_bases)

\* if let Some(base) = good_substitution { weak_bases[K - 1] = base; .. }
SubstitutionApplied(k, r, weak_bases) ==
    IF r.pc = "hang" THEN [ok |-> "hang", weak_bases |-> weak_bases]
    ELSE IF r.good # None
         THEN [ok |-> "true", weak_bases |-> VecSet(weak_bases, k - 1, r.good[1])]
    ELSE [ok |-> "false", weak_bases |-> weak_bases]

\* try_substitution; prev_base is weak_bases[K - 1]
TrySubstitution(k, sol, weak_bases, validation_threshold) ==
    SubstitutionApplied(
        k,
        TryEach(k, sol, WeakBasesSlice(weak_bases, k - 1 + validation_threshold),
                "substitution",
                SelectSeq(AllBases, LAMBDA b : b # weak_bases[k]), None),
        weak_bases)

\* a || b on the outcomes of two edits: b is tried only when a returned false
OrElse(a, b) == IF a.ok # "false" THEN a ELSE b

\* try_deletion(..) || try_substitution(..) || try_insertion(..)
TryEdits(k, sol, weak_bases, validation_threshold) ==
    OrElse(TryDeletion(k, sol, weak_bases, validation_threshold),
           OrElse(TrySubstitution(k, sol, weak_bases, validation_threshold),
                  TryInsertion(k, sol, weak_bases, validation_threshold)))

\* Stats::default() and the derived AddAssign
StatsDefault == [errors |-> 0, long_errors |-> 0, corrections |-> 0]
StatsAdd(a, b) ==
    [errors |-> a.errors + b.errors,
     long_errors |-> a.long_errors + b.long_errors,
     corrections |-> a.corrections + b.corrections]

\* the scratch object R = (Vec<u8>, Stats) as R::default() makes it
ScratchDefault == [buffer |-> <<>>, stats |-> StatsDefault]

\* buffer.clear() left out: the buffer keeps what the scratch object held
BufferKept(buffer) == buffer
\* buffer.clear()
BufferClear(buffer) == <<>>

\* the locals of the callback before the first k-mer
CallbackStart(r) ==
    [buffer |-> BufferClear(r.buffer), stats |-> StatsDefault, error_len |-> 0,
     weak_bases |-> <<>>, solid_bases |-> <<>>, pc |-> "run"]

\* a solid k-mer after error_len > 0 weak ones, e being what the edits
\* returned (false when none was tried)
CloseWeakRun(k, c, long, e, kmer) ==
    IF e.ok = "hang" THEN [c EXCEPT !.pc = "hang"]
    ELSE [c EXCEPT
            !.stats = [errors |-> @.errors,
                       long_errors |-> @.long_errors + (IF long THEN 1 ELSE 0),
                       corrections |-> @.corrections + (IF e.ok = "true" THEN 1 ELSE 0)],
            !.buffer = @ \o ToNucs(Slice(e.weak_bases, k - 1, Len(e.weak_bases))),
            !.weak_bases = Slice(e.weak_bases, 0, k - 1),
            !.solid_bases = Append(@, kmer % 4),
            !.error_len = 0]

\* the body of the for_each closure on one k-mer
CallbackStep(k, sol, v, c, kmer) ==
    IF kmer \in sol
    THEN IF c.error_len > 0
         THEN CloseWeakRun(k, c, c.error_len >= k - 1,
                           IF c.error_len >= k - 1
                           THEN TryEdits(k, sol, c.weak_bases, v)
                           ELSE [ok |-> "false", weak_bases |-> c.weak_bases],
                           kmer)
         ELSE c
    ELSE IF c.error_len = 0
         THEN [c EXCEPT !.stats.errors = @ + 1,
                        !.buffer = @ \o ToNucs(c.solid_bases),
                        !.solid_bases = <<>>,
                        !.weak_bases = ToBases(k, kmer),
                        !.error_len = 1]
         ELSE [c EXCEPT !.weak_bases = Append(@, kmer % 4),
                        !.error_len = @ + 1]

\* for_each over the k-mers from the j-th on
RECURSIVE CallbackLoop(_, _, _, _, _, _)
CallbackLoop(k, sol, v, c, kmers, j) ==
    IF j > Len(kmers) \/ c.pc = "hang" THEN c
    ELSE CallbackLoop(k, sol, v, CallbackStep(k, sol, v, c, kmers[j]), kmers, j + 1)

\* what the callback leaves in the scratch object, and whether it returns
CallbackEnd(c) == [buffer |-> c.buffer, stats |-> c.stats, returns |-> c.pc # "hang"]

\* the worker callback of the correction pass on one read with scratch
\* object r
CorrectionCallback(k, sol, v, ns, r) ==
    CallbackEnd(CallbackLoop(k, sol, v, CallbackStart(r), IterFromNucs(k, ns), 1))

(***************************************************************************)
(*   THE READ PIPELINE ADAPTER (reads.rs) AND THE SINK OF THE DRIVER       *)
(*                                                                         *)
(* parallel_process_result hands the reader, the worker closure and the    *)
(* sink closure to read_process_fasta_records.  The reader fills scratch   *)
(* objects that circulate between the reader, the workers and the sink:    *)
(* a worker runs the closure on a record with the scratch object it was    *)
(* given, and the sink closure runs on the calling thread, on the records  *)
(* in the order in which they were read.                                   *)
(***************************************************************************)
MaxRecords == 3     \* records in the input file
MaxThreads == 2     \* workers
MaxQueueLen == 2    \* scratch objects in circulation (queue_len)

\* the oracle: AAA and its reverse complement TTT are solid
AdapterSolid == {0, 63}
\* two records whose results differ (the buffers A and AA) and one on which
\* the worker closure does not return
AdapterRecords ==
    {[head |-> <<"r">>, seq |-> <<"C","A","A","A">>],
     [head |-> <<"s">>, seq |-> <<"A","A","A","C","A","A","A">>],
     [head |-> <<"r","s">>, seq |-> <<"A","A","C","C","A","A","A">>]}

SlotFree == [pc |-> "free", rec |-> 0, result |-> ScratchDefault]
WorkerIdle == [pc |-> "idle", slot |-> 0]

InitAdapter ==
    /\ IdleButAdapter
    /\ K \in {3}
    /\ solid = AdapterSolid
    /\ validation \in {3}
    /\ records \in UNION {[1..n -> AdapterRecords] : n \in 1..MaxRecords}
    /\ fresh = [i \in 1..Len(records) |->
                   CorrectionCallback(K, solid, validation, records[i].seq,
                                      ScratchDefault)]
    /\ reader = 0
    /\ slots = [s \in 1..MaxQueueLen |-> SlotFree]
    /\ wk \in {[t \in 1..n |-> WorkerIdle] : n \in 1..MaxThreads}
    /\ finished = <<>>
    /\ sunk = <<>>
    /\ writer = <<>>
    /\ sink_stats = StatsDefault

\* the reader parses the next record into a scratch object that is free; the
\* object keeps whatever an earlier record left in it
ReadRecord ==
    /\ reader < Len(records)
    /\ \E s \in DOMAIN slots :
          /\ slots[s].pc = "free"
          /\ slots' = [slots EXCEPT ![s].pc = "queued", ![s].rec = reader + 1]
    /\ reader' = reader + 1
    /\ UNCHANGED <<records, fresh, validation, wk, finished, sunk, writer, sink_stats,
                   K, solid, OthersOfAdapter>>

\* an idle worker takes the oldest record waiting in the queue
WorkTake(t) ==
    /\ wk[t].pc = "idle"
    /\ \E s \in DOMAIN slots :
          /\ slots[s].pc = "queued"
          /\ \A u \in DOMAIN slots :
                slots[u].pc = "queued" => slots[s].rec <= slots[u].rec
          /\ slots' = [slots EXCEPT ![s].pc = "running"]
          /\ wk' = [wk EXCEPT ![t] = [pc |-> "busy", slot |-> s]]
    /\ UNCHANGED <<records, fresh, validation, reader, finished, sunk, writer, sink_stats,
                   K, solid, OthersOfAdapter>>

\* |record, result| f(record.seq().iter(), result) with the driver's worker
\* closure for f; a closure that does not return keeps its worker for ever
WorkReturn(t, s, r) ==
    IF r.returns
    THEN /\ slots' = [slots EXCEPT
                        ![s].pc = "done",
                        ![s].result = [buffer |-> r.buffer, stats |-> r.stats]]
         /\ wk' = [wk EXCEPT ![t] = WorkerIdle]
         /\ finished' = Append(finished, slots[s].rec)
    ELSE /\ slots' = slots
         /\ wk' = [wk EXCEPT ![t].pc = "hung"]
         /\ finished' = finished

WorkRun(t) ==
    /\ wk[t].pc = "busy"
    /\ WorkReturn(t, wk[t].slot,
                  CorrectionCallback(K, solid, validation,
                                     records[slots[wk[t].slot].rec].seq,
                                     slots[wk[t].slot].result))
    /\ UNCHANGED <<records, fresh, validation, reader, sunk, writer, sink_stats, K, solid,
                   OthersOfAdapter>>

\* the driver's sink closure: |(buffer, stats)| { writer.write(b">\n");
\* writer.write(buffer); writer.write(b"\n"); global_stats += *stats; }
HandleResultOf(result) ==
    /\ writer' = writer \o <<">", "\n">> \o result.buffer \o <<"\n">>
    /\ sink_stats' = StatsAdd(sink_stats, result.stats)

\* |_, result| { handle_result(result); None }, called for the next record in
\* reading order once its worker is done with it
SinkRecord ==
    /\ \E s \in DOMAIN slots :
          /\ slots[s].pc = "done"
          /\ slots[s].rec = Len(sunk) + 1
          /\ HandleResultOf(slots[s].result)
          /\ sunk' = Append(sunk, slots[s].rec)
          /\ slots' = [slots EXCEPT ![s].pc = "free"]
    /\ UNCHANGED <<records, fresh, validation, reader, wk, finished, K, solid,
                   OthersOfAdapter>>

NextAdapter ==
    \/ ReadRecord
    \/ \E t \in DOMAIN wk : WorkTake(t)
    \/ \E t \in DOMAIN wk : WorkRun(t)
    \/ SinkRecord

SpecAdapter == InitAdapter /\ [][NextAdapter]_vars

\* what the worker closure computes from the i-th record on a scratch object
\* fresh from R::default()
ResultOf(i) == fresh[i]

\* the output file after the sink has written the results of the first n
\* records, each as ">", newline, buffer, newline
RECURSIVE ResultsWritten(_)
ResultsWritten(n) ==
    IF n = 0 THEN <<>>
    ELSE ResultsWritten(n - 1) \o <<">", "\n">> \o ResultOf(n).buffer \o <<"\n">>

RECURSIVE StatsOfFirst(_)
StatsOfFirst(n) ==
    IF n = 0 THEN StatsDefault ELSE StatsAdd(StatsOfFirst(n - 1), ResultOf(n).stats)

\* every worker closure has returned and nothing is left to do
AdapterReturned ==
    /\ reader = Len(records)
    /\ \A s \in DOMAIN slots : slots[s].pc = "free"
    /\ \A t \in DOMAIN wk : wk[t].pc = "idle"

\* C13: in parallel_process_result, for any number of workers and any order
\* in which the workers finish, the sink is called once per record and in
\* input order (the calls so far are for records 1, 2, .., n), what it has
\* written and summed is the result computed from each of these records in
\* turn, and when the pass returns it has been called for every record.
C13_SinkOncePerRecordInOrder ==
    /\ sunk = [i \in 1..Len(sunk) |-> i]
    /\ Len(sunk) <= Len(records)
    /\ writer = ResultsWritten(Len(sunk))
    /\ sink_stats = StatsOfFirst(Len(sunk))
    /\ AdapterReturned => Len(sunk) = Len(records)

\* three records with different results, the second finished before the
\* first, all written
C13_Witness ==
    /\ AdapterReturned
    /\ Len(records) = 3
    /\ Len(sunk) = 3
    /\ finished[1] = 2
    /\ ResultOf(1).buffer # ResultOf(2).buffer
    /\ writer = ResultsWritten(3)

\* the output file if each of the first n records were written as ">", its
\* header, newline, its corrected bases, newline
RECURSIVE RecordsWithHeaders(_)
RecordsWithHeaders(n) ==
    IF n = 0 THEN <<>>
    ELSE RecordsWithHeaders(n - 1) \o <<">">> \o records[n].head \o <<"\n">>
             \o ResultOf(n).buffer \o <<"\n">>

\* C14: the sink receives the header of the record it is writing: each
\* output record is '>' followed by the header of the corresponding input
\* record, a newline, the corrected bases and a newline.
C14_OutputRecordCarriesHeader ==
    writer = RecordsWithHeaders(Len(sunk))

\* C32: when the correction callback of main.rs applies no edit, every ACGT
\* base of the read is in the output buffer exactly once and in order when
\* the callback returns: the first K - 1 bases, the bases of the solid runs
\* and those of a weak run open at the end of the read.
C32_UneditedReadWrittenWhole ==
    \A s \in DOMAIN slots :
        (slots[s].pc = "done" /\ slots[s].result.stats.corrections = 0) =>
            slots[s].result.buffer
                = ToNucs(FilterMapFromNuc(records[slots[s].rec].seq))

====
